---- MODULE Spec2Model ----
(***************************************************************************)
(* Model of src/src/index.ts: the MacAppsMCPServer tool registry, the      *)
(* tools/call dispatcher and the capability adapters (process/AppleScript, *)
(* Ollama HTTP API, MongoDB), seen as a state machine whose steps are the  *)
(* synchronous stretches of the async handlers between two awaits.         *)
(*                                                                         *)
(* Texts are sequences of string fragments (a template literal is the      *)
(* concatenation of its pieces).  The module is ASCII, so the Russian      *)
(* literals of the source are transliterated letter by letter, e.g.        *)
(* "Oshibka: " stands for the source literal U+041E U+0448 U+0438 U+0431   *)
(* U+043A U+0430 ": ".                                                     *)
(***************************************************************************)
EXTENDS Naturals, Sequences, FiniteSets

VARIABLES
    pc,      \* per call slot: where the handler of that tools/call request is
    req,     \* per call slot: the request being handled, [name, args]
    pend,    \* per call slot: what the adapter's try/catch has settled on, held while finally runs
    log,     \* per call slot: the collaborator calls this request has issued, in order
    res,     \* per call slot: what the handler promise settled with
    ended,   \* per call slot: how the adapter call the handler awaited ended (returned or threw)
    got,     \* per call slot: the last reply a collaborator gave this request
    store,   \* the document store behind MONGODB_URI
    conns,   \* connections to the store that were opened and not yet closed
    before,  \* per call slot: the store as it was when the request arrived (kept under TrackedSpec only)
    heard,   \* per call slot: every reply the collaborators gave this request, in order
    proc     \* the server process: running, in its SIGINT handler, or exited

vars == <<pc, req, pend, log, res, ended, got, store, conns, before, heard, proc>>

\* ------------------------------------------------------------------ bounds

\* tools/call requests the server handles at the same time.
MaxCalls == 1

\* Documents the collection d.c may hold (insertOne is refused by the guard beyond it).
MaxDocs == 2

\* tools/call requests in flight at the same time where calls overlap.
MaxOverlap == 2

\* ------------------------------------------------------- program constants

OLLAMA_API_URL == "http://localhost:11434"
MONGODB_URI == "mongodb://localhost:27017"
DefaultModel == "llama3.2"
DefaultLimit == 100

\* ------------------------------------------------------------ tool registry

\* The descriptor list of the ListToolsRequestSchema handler, in declaration
\* order: name and the schema's required array.
ToolDescriptors ==
    << [name |-> "open_application",          required |-> <<"appName">>],
       [name |-> "get_running_applications",  required |-> << >>],
       [name |-> "run_applescript",           required |-> <<"appName", "script">>],
       [name |-> "quit_application",          required |-> <<"appName">>],
       [name |-> "open_file_with_app",        required |-> <<"path", "appName">>],
       [name |-> "ollama_generate",           required |-> <<"prompt">>],
       [name |-> "ollama_list_models",        required |-> << >>],
       [name |-> "mongodb_create_database",   required |-> <<"databaseName">>],
       [name |-> "mongodb_list_databases",    required |-> << >>],
       [name |-> "mongodb_create_collection", required |-> <<"databaseName", "collectionName">>],
       [name |-> "mongodb_list_collections",  required |-> <<"databaseName">>],
       [name |-> "mongodb_delete_collection", required |-> <<"databaseName", "collectionName">>],
       [name |-> "mongodb_insert_document",   required |-> <<"databaseName", "collectionName", "document">>],
       [name |-> "mongodb_find_documents",    required |-> <<"databaseName", "collectionName">>],
       [name |-> "mongodb_delete_document",   required |-> <<"databaseName", "collectionName", "filter">>] >>

\* (variant: the list is built in another order than declared)
listToolsReordered ==
    [tools |-> <<ToolDescriptors[2], ToolDescriptors[1]>>
               \o SubSeq(ToolDescriptors, 3, Len(ToolDescriptors))]

\* The handler builds the list afresh from literals on every request.
listTools == [tools |-> ToolDescriptors]

\* The case labels of the routing switch, by adapter family.
ProcessCases == {"open_application", "get_running_applications", "run_applescript",
                 "quit_application", "open_file_with_app"}
OllamaCases == {"ollama_generate", "ollama_list_models"}
MongoCases == {"mongodb_create_database", "mongodb_list_databases",
               "mongodb_create_collection", "mongodb_list_collections",
               "mongodb_delete_collection", "mongodb_insert_document",
               "mongodb_find_documents", "mongodb_delete_document"}

\* (variant: the switch lacks the quit_application case)
RouteMissingCase(name) ==
    IF name \in ProcessCases \ {"quit_application"} THEN "process"
    ELSE IF name \in OllamaCases THEN "ollama"
    ELSE IF name \in MongoCases THEN "mongo"
    ELSE "default"

\* switch (name): the adapter family a name is routed to, "default" when no case matches.
Route(name) ==
    IF name \in ProcessCases THEN "process"
    ELSE IF name \in OllamaCases THEN "ollama"
    ELSE IF name \in MongoCases THEN "mongo"
    ELSE "default"

\* ------------------------------------------------------------- JS values

\* args?.k : the argument when the request carries it, undefined otherwise.
Has(args, k) == k \in DOMAIN args

\* `${v}` of an optional string argument: the text "undefined" when it is absent.
Str(args, k) == IF Has(args, k) THEN args[k] ELSE "undefined"

\* error instanceof Error ? error.message : String(error)
ErrMsg(error) == IF error.isError THEN error.message ELSE error.str

Err(type, message) == [isError |-> TRUE, type |-> type, message |-> message]

\* { content: [{ type: "text", text }] } : what every adapter returns on success.
\* It carries no isError field.
TextResult(text) == [content |-> << [type |-> "text", text |-> text] >>]

Ret(text) == [kind |-> "return", result |-> TextResult(text)]
Thr(error) == [kind |-> "throw", error |-> error]
Nothing == [kind |-> "none"]

\* new Error(`<prefix>${error instanceof Error ? error.message : String(error)}`),
\* the prefix given as its fragments.
Wrap(prefix, error) == Err("Error", prefix \o ErrMsg(error))

\* (variant: the catch block forgets the isError flag)
CatchToResultUnflagged(error) ==
    [content |-> << [type |-> "text", text |-> <<"Oshibka: ">> \o ErrMsg(error)] >>]

\* The catch block of the call handler: the failure becomes a Tool Result.
CatchToResult(error) ==
    [content |-> << [type |-> "text", text |-> <<"Oshibka: ">> \o ErrMsg(error)] >>,
     isError |-> TRUE]

\* (variant: the switch stands outside any try, a failure rejects the handler promise)
SettleWithoutCatch(outcome) ==
    IF outcome.kind = "return" THEN outcome.result ELSE [rejected |-> outcome.error]

\* (variant: the handler stamps isError: false on what the adapter returned)
SettleStampsFlag(outcome) ==
    IF outcome.kind = "return"
    THEN [content |-> outcome.result.content, isError |-> FALSE]
    ELSE CatchToResult(outcome.error)

\* What the handler promise settles with, given how the awaited adapter ended:
\* the adapter's own result, or the catch block's.
Settle(outcome) ==
    IF outcome.kind = "return" THEN outcome.result ELSE CatchToResult(outcome.error)

NoResult == [kind |-> "none"]
NoRequest == [name |-> "", args |-> << >>]
ListRequest == [name |-> "tools/list", args |-> << >>]

\* ------------------------------------------------------------- requests

\* The tools/call requests the client sends: every registered name and one
\* unregistered name, each with its arguments absent (args undefined, so every
\* args?.k is undefined) and with representative arguments present.
NoArgs == << >>

ProcessRequests ==
    {[name |-> "open_application", args |-> a] : a \in {NoArgs, [appName |-> "Safari"]}}
    \cup {[name |-> "get_running_applications", args |-> NoArgs]}
    \cup {[name |-> "run_applescript", args |-> a] :
              a \in {NoArgs, [appName |-> "Safari", script |-> "activate"]}}
    \cup {[name |-> "quit_application", args |-> a] : a \in {NoArgs, [appName |-> "Safari"]}}
    \cup {[name |-> "open_file_with_app", args |-> a] :
              a \in {NoArgs, [path |-> "/tmp/a.txt", appName |-> "TextEdit"]}}

OllamaRequests ==
    {[name |-> "ollama_generate", args |-> a] :
        a \in {NoArgs, [prompt |-> "hi"], [prompt |-> "hi", model |-> "mistral"],
               [prompt |-> "hi", model |-> ""]}}
    \cup {[name |-> "ollama_list_models", args |-> NoArgs]}

UnknownRequests == {[name |-> "__nonexistent__", args |-> NoArgs]}

\* --------------------------------------------- process/automation adapter

\* The command line handed to execAsync, as its fragments.
ExecCommand(r) ==
    CASE r.name = "open_application" ->
            <<"open -a \"", Str(r.args, "appName"), "\"">>
      [] r.name = "get_running_applications" ->
            <<"osascript -e 'tell application \"System Events\" to get name of every application process whose background only is false'">>
      [] r.name = "run_applescript" ->
            <<"osascript -e 'tell application \"", Str(r.args, "appName"), "\" ",
              Str(r.args, "script"), " end tell'">>
      [] r.name = "quit_application" ->
            <<"osascript -e 'tell application \"", Str(r.args, "appName"), "\" quit end tell'">>
      [] r.name = "open_file_with_app" ->
            <<"open -a \"", Str(r.args, "appName"), "\" \"", Str(r.args, "path"), "\"">>

\* What the executor can answer: captured output (stdout as the fields that
\* ", " separates, stderr as text) or a fault.
ExecFault == Err("Error", <<"Command failed">>)
ExecOk(stdout, stderr) == [ok |-> TRUE, stdout |-> stdout, stderr |-> stderr]
ExecReplies(name) ==
    {[ok |-> FALSE, error |-> ExecFault]}
    \cup (CASE name = "get_running_applications" ->
                {ExecOk(<<"">>, ""), ExecOk(<<"Finder", "Safari">>, "")}
            [] name = "run_applescript" ->
                {ExecOk(<<"done">>, ""), ExecOk(<< >>, "warning"), ExecOk(<< >>, "")}
            [] OTHER -> {ExecOk(<< >>, "")})

\* apps.join("\n")
RECURSIVE JoinLines(_)
JoinLines(s) ==
    IF s = << >> THEN << >>
    ELSE IF Len(s) = 1 THEN s
    ELSE <<Head(s), "\n">> \o JoinLines(Tail(s))

\* .filter((app) => app.length > 0)
NonEmpty(s) == SelectSeq(s, LAMBDA f : f # "")

openApplication(args, reply) ==
    IF reply.ok
    THEN Ret(<<"Prilozhenie \"", Str(args, "appName"), "\" uspeshno zapushcheno">>)
    ELSE Thr(Wrap(<<"Ne udalos' zapustit' prilozhenie \"", Str(args, "appName"), "\": ">>,
                  reply.error))

getRunningApplications(reply) ==
    IF reply.ok
    THEN Ret(<<"Zapushchennye prilozheniya:\n">> \o JoinLines(NonEmpty(reply.stdout)))
    ELSE Thr(Wrap(<<"Ne udalos' poluchit' spisok prilozhenii: ">>, reply.error))

\* text: stdout || stderr || "<done>"
runAppleScript(args, reply) ==
    IF reply.ok
    THEN Ret(IF reply.stdout # << >> THEN reply.stdout
             ELSE IF reply.stderr # "" THEN <<reply.stderr>>
             ELSE <<"Komanda vypolnena uspeshno">>)
    ELSE Thr(Wrap(<<"Oshibka vypolneniya AppleScript: ">>, reply.error))

quitApplication(args, reply) ==
    IF reply.ok
    THEN Ret(<<"Prilozhenie \"", Str(args, "appName"), "\" zakryto">>)
    ELSE Thr(Wrap(<<"Ne udalos' zakryt' prilozhenie \"", Str(args, "appName"), "\": ">>,
                  reply.error))

openFileWithApp(args, reply) ==
    IF reply.ok
    THEN Ret(<<"Fail \"", Str(args, "path"), "\" otkryt v prilozhenii \"",
               Str(args, "appName"), "\"">>)
    ELSE Thr(Wrap(<<"Ne udalos' otkryt' fail: ">>, reply.error))

\* The process cases of the switch: how the awaited adapter ends on a reply.
ProcessOutcome(r, reply) ==
    CASE r.name = "open_application" -> openApplication(r.args, reply)
      [] r.name = "get_running_applications" -> getRunningApplications(reply)
      [] r.name = "run_applescript" -> runAppleScript(r.args, reply)
      [] r.name = "quit_application" -> quitApplication(r.args, reply)
      [] r.name = "open_file_with_app" -> openFileWithApp(r.args, reply)

\* ------------------------------------------------- generative-model adapter

\* (variant: the model argument is not read, the default is always sent)
ModelArgIgnored(args) == DefaultModel

\* (args?.model as string) || "llama3.2" : an absent or empty model gives the default.
ModelArg(args) ==
    IF Has(args, "model") /\ args.model # "" THEN args.model ELSE DefaultModel

\* JSON.stringify({ model, prompt, stream: false }): an undefined prompt is left out.
GenerateBody(args) ==
    IF Has(args, "prompt")
    THEN [model |-> ModelArg(args), prompt |-> args.prompt, stream |-> FALSE]
    ELSE [model |-> ModelArg(args), stream |-> FALSE]

\* (variant: the ollama_list_models case calls the generate adapter)
FetchRequestCrossed(r) ==
    [op |-> "fetch", method |-> "POST", url |-> <<OLLAMA_API_URL, "/api/generate">>,
     body |-> GenerateBody(r.args)]

\* The one HTTP request an ollama tool sends.
FetchRequest(r) ==
    IF r.name = "ollama_generate"
    THEN [op |-> "fetch", method |-> "POST", url |-> <<OLLAMA_API_URL, "/api/generate">>,
          body |-> GenerateBody(r.args)]
    ELSE [op |-> "fetch", method |-> "GET", url |-> <<OLLAMA_API_URL, "/api/tags">>]

\* What the HTTP exchange can come to.  "unreachable": fetch itself rejects, in
\* Node with TypeError "fetch failed".  "status": a reply with response.ok false,
\* whose body text is errorText.  "aborted": the body cannot be read, TypeError
\* "terminated".  "badjson": response.json() rejects with a SyntaxError.
\* "json": the parsed reply.
FetchFailed == Err("TypeError", <<"fetch", " failed">>)
BodyTerminated == Err("TypeError", <<"terminated">>)
BadJsonReply == Err("SyntaxError", <<"Unexpected token < in JSON at position 0">>)
FetchFaults ==
    {[kind |-> "unreachable", error |-> FetchFailed],
     [kind |-> "aborted", error |-> BodyTerminated],
     [kind |-> "badjson", error |-> BadJsonReply]}
    \cup {[kind |-> "status", status |-> "404", errorText |-> t] :
             t \in {<<"model not found">>, <<"cannot ", "fetch", " manifest">>}}
GiB == 1073741824
FetchReplies(name) ==
    FetchFaults
    \cup (IF name = "ollama_generate"
          THEN {[kind |-> "json", data |-> d] :
                   d \in {<< >>, [response |-> ""], [response |-> "Hello"]}}
          ELSE {[kind |-> "json", data |-> d] :
                   d \in {<< >>, [models |-> << >>],
                          [models |-> << [name |-> "llama3.2", size |-> GiB + GiB \div 2] >>]}})

\* error.message.includes("fetch"), on a message held as fragments.
Includes(message, word) == \E i \in 1..Len(message) : message[i] = word

\* (variant: the test looks at the message only)
IsConnectivityFaultByText(error) == Includes(ErrMsg(error), "fetch")

\* error instanceof TypeError && error.message.includes("fetch")
IsConnectivityFault(error) ==
    error.isError /\ error.type = "TypeError" /\ Includes(error.message, "fetch")

ConnectivityError ==
    Err("Error", <<"Ne udalos' podklyuchit'sya k Ollama serveru (", OLLAMA_API_URL,
                   "). Ubedites', chto Ollama zapushchen: ollama serve">>)

\* The error the try block of an ollama adapter raises on a reply, if any.
FetchRaised(reply) ==
    IF reply.kind = "status"
    THEN Err("Error", <<"Ollama API error: ", reply.status, " ">> \o reply.errorText)
    ELSE reply.error

\* The catch block shared by the two ollama adapters, with the adapter's own prefix.
OllamaCatch(prefix, error) ==
    IF IsConnectivityFault(error) THEN Thr(ConnectivityError) ELSE Thr(Wrap(prefix, error))

ollamaGenerate(reply) ==
    IF reply.kind # "json"
    THEN OllamaCatch(<<"Oshibka Ollama: ">>, FetchRaised(reply))
    ELSE Ret(IF Has(reply.data, "response") /\ reply.data.response # ""
             THEN <<reply.data.response>>
             ELSE <<"Net otveta ot modeli">>)

Digits == <<"0", "1", "2", "3", "4", "5", "6", "7", "8", "9">>

\* String(n) of a natural number, as its digits.
RECURSIVE NumStr(_)
NumStr(n) == IF n < 10 THEN <<Digits[n + 1]>> ELSE NumStr(n \div 10) \o <<Digits[(n % 10) + 1]>>

\* (size / 1024 / 1024 / 1024).toFixed(2), truncating where toFixed rounds.
ToFixed2GB(size) ==
    LET hundredths == size \div (GiB \div 100)
    IN  NumStr(hundredths \div 100) \o <<".">>
        \o <<Digits[((hundredths \div 10) % 10) + 1], Digits[(hundredths % 10) + 1]>>

RECURSIVE ModelLines(_)
ModelLines(models) ==
    IF models = << >> THEN << >>
    ELSE <<"- ", Head(models).name, " (">> \o ToFixed2GB(Head(models).size) \o <<" GB)">>
         \o (IF Len(models) > 1 THEN <<"\n">> ELSE << >>) \o ModelLines(Tail(models))

ollamaListModels(reply) ==
    IF reply.kind # "json"
    THEN OllamaCatch(<<"Oshibka polucheniya spiska modelei: ">>, FetchRaised(reply))
    ELSE LET models == IF Has(reply.data, "models") THEN reply.data.models ELSE << >>
         IN  IF Len(models) = 0
             THEN Ret(<<"Net dostupnykh modelei. Zagruzite model': ollama pull llama3.2">>)
             ELSE Ret(<<"Dostupnye modeli Ollama:\n">> \o ModelLines(models))

\* The ollama cases of the switch: how the awaited adapter ends on a reply.
OllamaOutcome(r, reply) ==
    IF r.name = "ollama_generate" THEN ollamaGenerate(reply) ELSE ollamaListModels(reply)

\* ---------------------------------------------------- document-store data

\* The JSON texts the client passes as document and filter arguments.
JohnDocText == "{\"name\":\"John\",\"age\":30}"
AnnDocText == "{\"name\":\"Ann\",\"age\":30}"
JohnFilterText == "{\"name\":\"John\"}"
EmptyObjectText == "{}"
BadJsonText == "{not valid json"

\* JSON.parse of an argument: the value of a JSON text; a SyntaxError for an
\* absent argument (JSON.parse(undefined)), the empty string and malformed text.
JSONParse(args, k) ==
    IF ~Has(args, k)
        THEN [ok |-> FALSE,
              error |-> Err("SyntaxError", <<"\"undefined\" is not valid JSON">>)]
    ELSE IF args[k] = JohnDocText
        THEN [ok |-> TRUE, value |-> [name |-> "John", age |-> 30]]
    ELSE IF args[k] = AnnDocText
        THEN [ok |-> TRUE, value |-> [name |-> "Ann", age |-> 30]]
    ELSE IF args[k] = JohnFilterText
        THEN [ok |-> TRUE, value |-> [name |-> "John"]]
    ELSE IF args[k] = EmptyObjectText
        THEN [ok |-> TRUE, value |-> << >>]
    ELSE IF args[k] = ""
        THEN [ok |-> FALSE, error |-> Err("SyntaxError", <<"Unexpected end of JSON input">>)]
    ELSE [ok |-> FALSE,
          error |-> Err("SyntaxError", <<"Expected property name or '}' in JSON at position 1">>)]

DC == [databaseName |-> "d", collectionName |-> "c"]
MongoRequests ==
    {[name |-> "mongodb_create_database", args |-> a] : a \in {NoArgs, [databaseName |-> "d"]}}
    \cup {[name |-> "mongodb_list_databases", args |-> NoArgs]}
    \cup {[name |-> n, args |-> a] :
             n \in {"mongodb_create_collection", "mongodb_delete_collection"},
             a \in {NoArgs, DC}}
    \cup {[name |-> "mongodb_list_collections", args |-> a] :
             a \in {NoArgs, [databaseName |-> "d"]}}
    \cup {[name |-> "mongodb_insert_document", args |-> a] :
             a \in {NoArgs, DC}
                   \cup {[databaseName |-> "d", collectionName |-> "c", document |-> t] :
                            t \in {JohnDocText, BadJsonText}}}
    \cup {[name |-> "mongodb_find_documents", args |-> a] :
             a \in {NoArgs, DC,
                    [databaseName |-> "d", collectionName |-> "c", limit |-> 1],
                    [databaseName |-> "d", collectionName |-> "c", limit |-> 0]}
                   \cup {[databaseName |-> "d", collectionName |-> "c", filter |-> t] :
                            t \in {"", BadJsonText, JohnFilterText}}
                   \cup {[databaseName |-> "d", collectionName |-> "c",
                          filter |-> JohnFilterText, limit |-> 1]}}
    \cup {[name |-> "mongodb_delete_document", args |-> a] :
             a \in {NoArgs, DC}
                   \cup {[databaseName |-> "d", collectionName |-> "c", filter |-> t] :
                            t \in {"", BadJsonText, JohnFilterText, EmptyObjectText}}}

Requests == ProcessRequests \cup OllamaRequests \cup MongoRequests \cup UnknownRequests

\* The calls have nothing in common but the store.  The first slot takes every
\* request; a further slot takes the requests by which a call running at the
\* same time can reach another one: those that change the store.
StoreChangingRequests ==
    {[name |-> "mongodb_insert_document",
      args |-> [databaseName |-> "d", collectionName |-> "c", document |-> JohnDocText]],
     [name |-> "mongodb_delete_document",
      args |-> [databaseName |-> "d", collectionName |-> "c", filter |-> JohnFilterText]],
     [name |-> "mongodb_create_database", args |-> [databaseName |-> "d"]],
     [name |-> "mongodb_delete_collection", args |-> DC]}
RequestsOf(c) == IF c = 1 THEN Requests ELSE StoreChangingRequests

\* ------------------------------------------------ document-store collaborator

\* The store holds the collections that exist, as [db, coll] namespaces, and
\* the documents of the collection d.c, each [id, body], in insertion order.
DefaultDb == "test"
SystemDbs == {"admin", "config", "local"}
DbOrder == <<"admin", "config", "d", "local", "test">>
CollOrder == <<"_temp", "c">>
NsDC == [db |-> "d", coll |-> "c"]
EmptyStore == [colls |-> {}, docs |-> << >>]

\* The store the server finds: the collection d.c with one document in it.
InitialStore ==
    [colls |-> {NsDC}, docs |-> << [id |-> 1, body |-> [name |-> "Ann", age |-> 30]] >>]

\* client.db(databaseName): the driver falls back to the URI's database, "test".
Db(args) == IF Has(args, "databaseName") THEN args.databaseName ELSE DefaultDb

\* db.collection(collectionName) as a namespace; no coll field for an undefined name.
NS(args) ==
    IF Has(args, "collectionName")
    THEN [db |-> Db(args), coll |-> args.collectionName]
    ELSE [db |-> Db(args)]

NamedNs(ns) == "coll" \in DOMAIN ns

ServerFault == Err("MongoServerError", <<"operation failed">>)
ConnectFault == Err("MongoServerSelectionError", <<"connect ECONNREFUSED 127.0.0.1:27017">>)
CloseFault == Err("MongoError", <<"close failed">>)
InvalidNamespace == Err("MongoInvalidArgumentError", <<"Collection name must be a String">>)

\* A document matches a filter when it has every field of the filter with the same value.
Matches(body, filter) ==
    \A k \in DOMAIN filter : k \in DOMAIN body /\ body[k] = filter[k]

Take(s, n) == IF n = 0 \/ Len(s) <= n THEN s ELSE SubSeq(s, 1, n)

FreeIds(st) == (1..MaxDocs) \ {st.docs[i].id : i \in 1..Len(st.docs)}
MinOf(S) == CHOOSE x \in S : \A y \in S : x <= y

Ok(value, st) == [ok |-> TRUE, value |-> value, store |-> st]
Fault(error, st) == [ok |-> FALSE, error |-> error, store |-> st]

\* The successful outcome of one database operation on the store, when it has one.
MongoApply(st, op) ==
    CASE op.op = "createCollection" ->
            IF NamedNs(op.ns) /\ op.ns \notin st.colls
            THEN {Ok(TRUE, [st EXCEPT !.colls = @ \cup {op.ns}])}
            ELSE {}
      [] op.op = "drop" ->
            IF NamedNs(op.ns) /\ op.ns \in st.colls
            THEN {Ok(TRUE, [colls |-> st.colls \ {op.ns},
                            docs |-> IF op.ns = NsDC THEN << >> ELSE st.docs])}
            ELSE IF NamedNs(op.ns) THEN {Ok(FALSE, st)}   \* drivers that report "no such collection" as false
            ELSE {}
      [] op.op = "listDatabases" ->
            {Ok(SelectSeq(DbOrder, LAMBDA d : d \in SystemDbs
                                               \/ \E ns \in st.colls : ns.db = d), st)}
      [] op.op = "listCollections" ->
            {Ok(SelectSeq(CollOrder, LAMBDA c : [db |-> op.db, coll |-> c] \in st.colls), st)}
      [] op.op = "insertOne" ->
            IF op.ns = NsDC /\ Len(st.docs) < MaxDocs
            THEN LET id == MinOf(FreeIds(st))
                 IN  {Ok(id, [colls |-> st.colls \cup {NsDC},
                              docs |-> Append(st.docs, [id |-> id, body |-> op.doc])])}
            ELSE {}
      [] op.op = "find" ->
            IF op.ns = NsDC
            THEN {Ok(Take(SelectSeq(st.docs, LAMBDA d : Matches(d.body, op.filter)),
                          op.limit), st)}
            ELSE {}
      [] op.op = "deleteMany" ->
            IF op.ns = NsDC
            THEN {Ok(Len(SelectSeq(st.docs, LAMBDA d : Matches(d.body, op.filter))),
                     [st EXCEPT !.docs = SelectSeq(@, LAMBDA d : ~Matches(d.body, op.filter))])}
            ELSE {}

\* What the caller sees of an answer of the store: all but the store itself.
Answer(reply) == [k \in DOMAIN reply \ {"store"} |-> reply[k]]

\* What the store can answer to an operation: its outcome, or a fault that
\* leaves the store as it was.
MongoReplies(st, op) == MongoApply(st, op) \cup {Fault(ServerFault, st)}

\* ----------------------------------------------------- document-store adapter

\* The prefix each adapter's catch block puts before the message it rethrows.
MongoPrefix(name) ==
    CASE name = "mongodb_create_database" -> <<"Oshibka sozdaniya bazy dannykh: ">>
      [] name = "mongodb_list_databases" -> <<"Oshibka polucheniya spiska baz dannykh: ">>
      [] name = "mongodb_create_collection" -> <<"Oshibka sozdaniya kollektsii: ">>
      [] name = "mongodb_list_collections" -> <<"Oshibka polucheniya spiska kollektsii: ">>
      [] name = "mongodb_delete_collection" -> <<"Oshibka udaleniya kollektsii: ">>
      [] name = "mongodb_insert_document" -> <<"Oshibka vstavki dokumenta: ">>
      [] name = "mongodb_find_documents" -> <<"Oshibka poiska dokumentov: ">>
      [] name = "mongodb_delete_document" -> <<"Oshibka udaleniya dokumenta: ">>

\* catch (error) { throw new Error(`<prefix>${message}`) } of a mongodb adapter.
MongoCatch(name, error) == Thr(Wrap(MongoPrefix(name), error))

Issue(op) == [kind |-> "op", op |-> op]

\* const filter = filterJson ? JSON.parse(filterJson) : {} : an absent or
\* empty filter text is not parsed and stands for the empty filter.
FindFilter(args) ==
    IF Has(args, "filter") /\ args.filter # ""
    THEN JSONParse(args, "filter")
    ELSE [ok |-> TRUE, value |-> << >>]

\* (variant: limit || 100, which also replaces a supplied 0)
FindLimitFalsy(args) ==
    IF Has(args, "limit") /\ args.limit # 0 THEN args.limit ELSE DefaultLimit

\* limit: number = 100 : the default applies when the argument is undefined.
FindLimit(args) == IF Has(args, "limit") THEN args.limit ELSE DefaultLimit

\* (variant: the document text is handed to insertOne unparsed)
InsertBodyUnparsed(args) ==
    Issue([op |-> "insertOne", ns |-> NS(args), doc |-> [text |-> Str(args, "document")]])

\* The body of insert/find/delete from the JSON argument on: the parse error
\* thrown, or the one operation issued.
InsertBody(args) ==
    LET p == JSONParse(args, "document")
    IN  IF p.ok THEN Issue([op |-> "insertOne", ns |-> NS(args), doc |-> p.value])
        ELSE Thr(p.error)

\* (variant: the parsed filter is dropped and find matches every document)
FindBodyNoFilter(args) ==
    LET p == FindFilter(args)
    IN  IF p.ok
        THEN Issue([op |-> "find", ns |-> NS(args), filter |-> << >>,
                    limit |-> FindLimit(args)])
        ELSE Thr(p.error)

FindBody(args) ==
    LET p == FindFilter(args)
    IN  IF p.ok
        THEN Issue([op |-> "find", ns |-> NS(args), filter |-> p.value,
                    limit |-> FindLimit(args)])
        ELSE Thr(p.error)

\* (variant: delete treats its filter as find does, falsy means {})
DeleteBodyFalsyIsAll(args) ==
    LET p == FindFilter(args)
    IN  IF p.ok THEN Issue([op |-> "deleteMany", ns |-> NS(args), filter |-> p.value])
        ELSE Thr(p.error)

\* (variant: an absent filter stands for the empty filter, a supplied one is parsed)
DeleteBodyAbsentIsAll(args) ==
    IF Has(args, "filter")
    THEN LET p == JSONParse(args, "filter")
         IN  IF p.ok THEN Issue([op |-> "deleteMany", ns |-> NS(args), filter |-> p.value])
             ELSE Thr(p.error)
    ELSE Issue([op |-> "deleteMany", ns |-> NS(args), filter |-> << >>])

DeleteBody(args) ==
    LET p == JSONParse(args, "filter")
    IN  IF p.ok THEN Issue([op |-> "deleteMany", ns |-> NS(args), filter |-> p.value])
        ELSE Thr(p.error)

\* db.collection(undefined): drivers that check the name throw here, before
\* anything else of the try block runs; the others go on.
CollectionThrows(args) ==
    IF Has(args, "collectionName") THEN {FALSE} ELSE {FALSE, TRUE}

\* The try block of a mongodb adapter from its start to its first await: the
\* error it throws before issuing anything, or the operation it issues.
MongoTry(r) ==
    CASE r.name = "mongodb_create_database" ->
            {Issue([op |-> "createCollection", ns |-> [db |-> Db(r.args), coll |-> "_temp"]])}
      [] r.name = "mongodb_list_databases" ->
            {Issue([op |-> "listDatabases"])}
      [] r.name = "mongodb_create_collection" ->
            {Issue([op |-> "createCollection", ns |-> NS(r.args)])}
      [] r.name = "mongodb_list_collections" ->
            {Issue([op |-> "listCollections", db |-> Db(r.args)])}
      [] r.name = "mongodb_delete_collection" ->
            {IF t THEN Thr(InvalidNamespace) ELSE Issue([op |-> "drop", ns |-> NS(r.args)]) :
                t \in CollectionThrows(r.args)}
      [] r.name = "mongodb_insert_document" ->
            {IF t THEN Thr(InvalidNamespace) ELSE InsertBody(r.args) :
                t \in CollectionThrows(r.args)}
      [] r.name = "mongodb_find_documents" ->
            {IF t THEN Thr(InvalidNamespace) ELSE FindBody(r.args) :
                t \in CollectionThrows(r.args)}
      [] r.name = "mongodb_delete_document" ->
            {IF t THEN Thr(InvalidNamespace) ELSE DeleteBody(r.args) :
                t \in CollectionThrows(r.args)}

\* ObjectId.toString()
IdStr(id) == <<"oid-">> \o NumStr(id)

\* JSON.stringify(documents.map((doc) => ({ ...doc, _id: doc._id.toString() })), null, 2)
RenderDoc(doc) ==
    <<"{ \"_id\": \"">> \o IdStr(doc.id) \o <<"\", \"name\": \"", doc.body.name, "\", \"age\": ">>
    \o NumStr(doc.body.age) \o <<" }">>

RECURSIVE RenderDocs(_)
RenderDocs(docs) ==
    IF docs = << >> THEN << >>
    ELSE RenderDoc(Head(docs)) \o (IF Len(docs) > 1 THEN <<", ">> ELSE << >>)
         \o RenderDocs(Tail(docs))

ListOr(names, none) == IF Len(names) > 0 THEN JoinLines(names) ELSE <<none>>

\* The text a mongodb adapter returns when its operation succeeded with `value`.
MongoText(r, value) ==
    CASE r.name = "mongodb_create_database" ->
            <<"Baza dannykh \"", Str(r.args, "databaseName"), "\" uspeshno sozdana">>
      [] r.name = "mongodb_list_databases" ->
            <<"Bazy dannykh:\n">>
            \o ListOr(SelectSeq(value, LAMBDA n : n \notin SystemDbs), "Bazy dannykh ne naideny")
      [] r.name = "mongodb_create_collection" ->
            <<"Kollektsiya \"", Str(r.args, "collectionName"),
              "\" uspeshno sozdana v baze dannykh \"", Str(r.args, "databaseName"), "\"">>
      [] r.name = "mongodb_list_collections" ->
            <<"Kollektsii v baze dannykh \"", Str(r.args, "databaseName"), "\":\n">>
            \o ListOr(value, "Kollektsii ne naideny")
      [] r.name = "mongodb_delete_collection" ->
            <<"Kollektsiya \"", Str(r.args, "collectionName"),
              "\" uspeshno udalena iz bazy dannykh \"", Str(r.args, "databaseName"), "\"">>
      [] r.name = "mongodb_insert_document" ->
            <<"Dokument uspeshno vstavlen v kollektsiyu \"", Str(r.args, "collectionName"),
              "\". ID: ">> \o IdStr(value)
      [] r.name = "mongodb_find_documents" ->
            <<"Naideno dokumentov: ">> \o NumStr(Len(value)) \o <<"\n\n[">>
            \o RenderDocs(value) \o <<"]">>
      [] r.name = "mongodb_delete_document" ->
            <<"Udaleno dokumentov: ">> \o NumStr(value)

\* (variant: an operation the store rejected is issued once more)
MongoAfterRetry(r, op, reply) ==
    IF ~reply.ok THEN Issue(op)
    ELSE IF r.name = "mongodb_create_database" /\ op.op = "createCollection"
         THEN Issue([op |-> "drop", ns |-> op.ns])
    ELSE Ret(MongoText(r, reply.value))

\* (variant: create_database leaves the _temp collection in place, no drop)
MongoAfterNoDrop(r, op, reply) ==
    IF ~reply.ok THEN MongoCatch(r.name, reply.error)
    ELSE Ret(MongoText(r, reply.value))

\* The try block of a mongodb adapter after an awaited operation replied: the
\* next operation it issues (create_database drops _temp after creating it),
\* the result it returns, or, through its catch block, the error it rethrows.
MongoAfter(r, op, reply) ==
    IF ~reply.ok THEN MongoCatch(r.name, reply.error)
    ELSE IF r.name = "mongodb_create_database" /\ op.op = "createCollection"
         THEN Issue([op |-> "drop", ns |-> op.ns])
    ELSE Ret(MongoText(r, reply.value))

\* ------------------------------------------------------------- dispatcher

Calls == 1..MaxCalls

\* (variant: the message leaves the requested name out)
UnknownToolUnnamed(name) == Err("Error", <<"Neizvestnyi instrument">>)

\* default: throw new Error(`<unknown tool>: ${name}`)
UnknownTool(name) == Err("Error", <<"Neizvestnyi instrument: ", name>>)

\* The arguments the descriptor of a tool declares required.
RequiredOf(name) ==
    LET i == CHOOSE k \in 1..Len(ToolDescriptors) : ToolDescriptors[k].name = name
    IN  {ToolDescriptors[i].required[j] : j \in 1..Len(ToolDescriptors[i].required)}

\* (variant: the handler checks the schema's required array before the switch)
DispatchChecksRequired(r) ==
    IF Route(r.name) # "default" /\ \E k \in RequiredOf(r.name) : ~Has(r.args, k)
    THEN [pc |-> "done", log |-> << >>,
          ended |-> Thr(Err("Error", <<"Missing required argument">>))]
    ELSE CASE Route(r.name) = "process" ->
                 [pc |-> "exec", log |-> << [op |-> "exec", cmd |-> ExecCommand(r)] >>,
                  ended |-> Nothing]
           [] Route(r.name) = "ollama" ->
                 [pc |-> "fetch", log |-> << FetchRequest(r) >>, ended |-> Nothing]
           [] Route(r.name) = "mongo" ->
                 [pc |-> "connect", log |-> << [op |-> "connect", uri |-> MONGODB_URI] >>,
                  ended |-> Nothing]
           [] OTHER ->
                 [pc |-> "done", log |-> << >>, ended |-> Thr(UnknownTool(r.name))]

\* (variant: the process adapter is called without await and the handler
\* answers before the command has ended)
DispatchWithoutAwait(r) ==
    CASE Route(r.name) = "process" ->
            [pc |-> "done", log |-> << [op |-> "exec", cmd |-> ExecCommand(r)] >>,
             ended |-> Ret(<<"Prilozhenie \"", Str(r.args, "appName"), "\" uspeshno zapushcheno">>)]
      [] Route(r.name) = "ollama" ->
            [pc |-> "fetch", log |-> << FetchRequest(r) >>, ended |-> Nothing]
      [] Route(r.name) = "mongo" ->
            [pc |-> "connect", log |-> << [op |-> "connect", uri |-> MONGODB_URI] >>,
             ended |-> Nothing]
      [] OTHER ->
            [pc |-> "done", log |-> << >>, ended |-> Thr(UnknownTool(r.name))]

\* The call handler from its entry to its first await: the switch selects the
\* adapter, which issues its first collaborator call (for a mongodb tool,
\* getMongoClient's connect); the default case throws at once.
Dispatch(r) ==
    CASE Route(r.name) = "process" ->
            [pc |-> "exec", log |-> << [op |-> "exec", cmd |-> ExecCommand(r)] >>,
             ended |-> Nothing]
      [] Route(r.name) = "ollama" ->
            [pc |-> "fetch", log |-> << FetchRequest(r) >>, ended |-> Nothing]
      [] Route(r.name) = "mongo" ->
            [pc |-> "connect", log |-> << [op |-> "connect", uri |-> MONGODB_URI] >>,
             ended |-> Nothing]
      [] OTHER ->
            [pc |-> "done", log |-> << >>, ended |-> Thr(UnknownTool(r.name))]

\* (variant: a failure of close is swallowed, the try block's outcome stands)
FinallyIgnoresCloseFailure(tried, closeOk) == tried

\* finally { await client.close() }: the adapter ends the way its try/catch
\* ended, unless close itself fails, whose error then replaces it.
Finally(tried, closeOk) == IF closeOk THEN tried ELSE Thr(CloseFault)

\* await this.getMongoClient() stands before the try: a connect failure
\* reaches the handler as it is, and the client is never closed.
ConnectFailed == Thr(ConnectFault)

NoReply == [kind |-> "none"]

\* Requests arrive and handlers go on while the process lives.
Alive == proc \in {"running", "closing"}

Init ==
    /\ pc = [c \in Calls |-> "idle"]
    /\ req = [c \in Calls |-> NoRequest]
    /\ pend = [c \in Calls |-> Nothing]
    /\ log = [c \in Calls |-> << >>]
    /\ res = [c \in Calls |-> NoResult]
    /\ ended = [c \in Calls |-> Nothing]
    /\ got = [c \in Calls |-> NoReply]
    /\ conns = 0
    /\ store = InitialStore
    /\ before = [c \in Calls |-> EmptyStore]
    /\ heard = [c \in Calls |-> << >>]
    /\ proc = "running"

\* (variant: the result is kept in a field of the server object, which every
\* call in flight reads its answer from)
HandlerSettlesShared(c, outcome) ==
    /\ ended' = [ended EXCEPT ![c] = outcome]
    /\ res' = [x \in DOMAIN res |-> IF x = c \/ pc[x] = "done" THEN Settle(outcome) ELSE res[x]]
    /\ pc' = [pc EXCEPT ![c] = "done"]

\* The awaited adapter call of slot c ended with `outcome`: the handler settles.
HandlerSettles(c, outcome) ==
    /\ ended' = [ended EXCEPT ![c] = outcome]
    /\ res' = [res EXCEPT ![c] = Settle(outcome)]
    /\ pc' = [pc EXCEPT ![c] = "done"]

\* A tools/call request arrives and its handler runs to its first await.
Arrive(c, r) ==
    /\ Alive
    /\ pc[c] = "idle"
    /\ req' = [req EXCEPT ![c] = r]
    /\ LET d == Dispatch(r)
       IN  /\ log' = [log EXCEPT ![c] = d.log]
           /\ IF d.pc = "done"
              THEN HandlerSettles(c, d.ended)
              ELSE /\ pc' = [pc EXCEPT ![c] = d.pc]
                   /\ UNCHANGED <<res, ended>>
    /\ UNCHANGED <<pend, got, store, conns, heard, proc>>

CallTool(c, r) == Arrive(c, r) /\ UNCHANGED before

\* execAsync settles: the process adapter returns or rethrows.
ExecReply(c) ==
    /\ Alive
    /\ pc[c] = "exec"
    /\ \E reply \in ExecReplies(req[c].name) :
          /\ got' = [got EXCEPT ![c] = reply]
          /\ heard' = [heard EXCEPT ![c] = Append(@, reply)]
          /\ HandlerSettles(c, ProcessOutcome(req[c], reply))
    /\ UNCHANGED <<req, pend, log, store, conns, before, proc>>

\* (variant: the adapter gives up on a request that takes too long)
FetchReplyOrTimeout(c) ==
    /\ Alive
    /\ pc[c] = "fetch"
    /\ \/ \E reply \in FetchReplies(req[c].name) :
              /\ got' = [got EXCEPT ![c] = reply]
              /\ heard' = [heard EXCEPT ![c] = Append(@, reply)]
              /\ HandlerSettles(c, OllamaOutcome(req[c], reply))
       \/ /\ HandlerSettles(c, Thr(Err("TimeoutError", <<"The operation timed out">>)))
          /\ UNCHANGED <<got, heard>>
    /\ UNCHANGED <<req, pend, log, store, conns, before, proc>>

\* The HTTP exchange ends: the ollama adapter returns or rethrows.
FetchReply(c) ==
    /\ Alive
    /\ pc[c] = "fetch"
    /\ \E reply \in FetchReplies(req[c].name) :
          /\ got' = [got EXCEPT ![c] = reply]
          /\ heard' = [heard EXCEPT ![c] = Append(@, reply)]
          /\ HandlerSettles(c, OllamaOutcome(req[c], reply))
    /\ UNCHANGED <<req, pend, log, store, conns, before, proc>>

\* (variant: close stands at the end of the try block, not in a finally: a
\* throw leaves the adapter without closing)
CloseInTryOnly(c, tried) ==
    IF tried.kind = "throw"
    THEN HandlerSettles(c, tried) /\ UNCHANGED <<pend, log>>
    ELSE /\ pend' = [pend EXCEPT ![c] = tried]
         /\ log' = [log EXCEPT ![c] = Append(@, [op |-> "close"])]
         /\ pc' = [pc EXCEPT ![c] = "close"]
         /\ UNCHANGED <<res, ended>>

\* (variant: close is called without await, the adapter ends while the
\* release is still under way)
CloseNotAwaited(c, tried) ==
    /\ log' = [log EXCEPT ![c] = Append(@, [op |-> "close"])]
    /\ HandlerSettles(c, tried)
    /\ UNCHANGED pend

\* The adapter's try/catch has ended with `tried`: finally issues close.
EnterFinally(c, tried) ==
    /\ pend' = [pend EXCEPT ![c] = tried]
    /\ log' = [log EXCEPT ![c] = Append(@, [op |-> "close"])]
    /\ pc' = [pc EXCEPT ![c] = "close"]
    /\ UNCHANGED <<res, ended>>

\* The try block of slot c does its next thing: issues an operation and
\* awaits it, or ends (returns, or throws into its catch block).
TryStep(c, t) ==
    IF t.kind = "op"
    THEN /\ log' = [log EXCEPT ![c] = Append(@, t.op)]
         /\ pc' = [pc EXCEPT ![c] = "op"]
         /\ UNCHANGED <<pend, res, ended>>
    ELSE EnterFinally(c, t)

\* (variant: getMongoClient is awaited inside the try block, so a connect
\* failure passes through the adapter's catch and finally)
ConnectFailsInsideTry(c) ==
    /\ Alive
    /\ pc[c] = "connect"
    /\ got' = [got EXCEPT ![c] = [kind |-> "connect", ok |-> FALSE]]
    /\ heard' = [heard EXCEPT ![c] = Append(@, [kind |-> "connect", ok |-> FALSE])]
    /\ EnterFinally(c, MongoCatch(req[c].name, ConnectFault))
    /\ UNCHANGED <<req, store, conns, before, proc>>

\* client.connect() fails: getMongoClient rejects, outside the adapter's try.
ConnectFails(c) ==
    /\ Alive
    /\ pc[c] = "connect"
    /\ got' = [got EXCEPT ![c] = [kind |-> "connect", ok |-> FALSE]]
    /\ heard' = [heard EXCEPT ![c] = Append(@, [kind |-> "connect", ok |-> FALSE])]
    /\ HandlerSettles(c, ConnectFailed)
    /\ UNCHANGED <<req, pend, log, store, conns, before, proc>>

\* client.connect() succeeds: the try block runs to its first await.
ConnectOk(c) ==
    /\ Alive
    /\ pc[c] = "connect"
    /\ got' = [got EXCEPT ![c] = [kind |-> "connect", ok |-> TRUE]]
    /\ conns' = conns + 1
    /\ \E t \in MongoTry(req[c]) :
          /\ TryStep(c, IF t.kind = "throw" THEN MongoCatch(req[c].name, t.error) ELSE t)
          /\ heard' = [heard EXCEPT ![c] =
                          Append(@, [kind |-> "connect", ok |-> TRUE,
                                     nameRefused |-> (t = Thr(InvalidNamespace))])]
    /\ UNCHANGED <<req, store, before, proc>>

\* The awaited database operation replies: the try block goes on.
OpReply(c) ==
    /\ Alive
    /\ pc[c] = "op"
    /\ LET op == log[c][Len(log[c])]
       IN  \E reply \in MongoReplies(store, op) :
              /\ store' = reply.store
              /\ got' = [got EXCEPT ![c] = [kind |-> "op", ok |-> reply.ok]]
              /\ heard' = [heard EXCEPT ![c] = Append(@, Answer(reply))]
              /\ TryStep(c, MongoAfter(req[c], op, reply))
    /\ UNCHANGED <<req, conns, before, proc>>

\* client.close() settles: the adapter ends.
CloseReply(c) ==
    /\ Alive
    /\ pc[c] = "close"
    /\ \E closeOk \in BOOLEAN :
          /\ got' = [got EXCEPT ![c] = [kind |-> "close", ok |-> closeOk]]
          /\ heard' = [heard EXCEPT ![c] = Append(@, [kind |-> "close", ok |-> closeOk])]
          /\ HandlerSettles(c, Finally(pend[c], closeOk))
    /\ conns' = conns - 1
    /\ UNCHANGED <<req, pend, log, store, before, proc>>

\* A tools/list request arrives; its handler has no await and settles at once.
ListTools(c) ==
    /\ Alive
    /\ pc[c] = "idle"
    /\ req' = [req EXCEPT ![c] = ListRequest]
    /\ res' = [res EXCEPT ![c] = listTools]
    /\ pc' = [pc EXCEPT ![c] = "done"]
    /\ UNCHANGED <<pend, log, ended, got, store, conns, before, heard, proc>>

\* (variant: the server keeps the last result in a field after replying)
RespondKeepsResult(c) ==
    /\ Alive
    /\ pc[c] = "done"
    /\ pc' = [pc EXCEPT ![c] = "idle"]
    /\ req' = [req EXCEPT ![c] = NoRequest]
    /\ pend' = [pend EXCEPT ![c] = Nothing]
    /\ log' = [log EXCEPT ![c] = << >>]
    /\ ended' = [ended EXCEPT ![c] = Nothing]
    /\ got' = [got EXCEPT ![c] = NoReply]
    /\ before' = [before EXCEPT ![c] = EmptyStore]
    /\ heard' = [heard EXCEPT ![c] = << >>]
    /\ UNCHANGED <<res, store, conns, proc>>

\* The reply is sent; the request and everything created for it is dropped.
Respond(c) ==
    /\ Alive
    /\ pc[c] = "done"
    /\ pc' = [pc EXCEPT ![c] = "idle"]
    /\ req' = [req EXCEPT ![c] = NoRequest]
    /\ pend' = [pend EXCEPT ![c] = Nothing]
    /\ log' = [log EXCEPT ![c] = << >>]
    /\ res' = [res EXCEPT ![c] = NoResult]
    /\ ended' = [ended EXCEPT ![c] = Nothing]
    /\ got' = [got EXCEPT ![c] = NoReply]
    /\ before' = [before EXCEPT ![c] = EmptyStore]
    /\ heard' = [heard EXCEPT ![c] = << >>]
    /\ UNCHANGED <<store, conns, proc>>

Next ==
    \/ \E c \in Calls : \E r \in RequestsOf(c) : CallTool(c, r)
    \/ \E c \in Calls : ListTools(c)
    \/ \E c \in Calls : ExecReply(c)
    \/ \E c \in Calls : FetchReply(c)
    \/ \E c \in Calls : ConnectFails(c)
    \/ \E c \in Calls : ConnectOk(c)
    \/ \E c \in Calls : OpReply(c)
    \/ \E c \in Calls : CloseReply(c)
    \/ \E c \in Calls : Respond(c)

Spec == Init /\ [][Next]_vars

\* ------------------------------------------------- answering collaborators

\* A collaborator call that was issued is answered at some time, with a
\* result or a failure: the condition under which the handler's awaits end.
Answered(c) ==
    ExecReply(c) \/ FetchReply(c) \/ ConnectFails(c) \/ ConnectOk(c) \/ OpReply(c)
    \/ CloseReply(c)

\* Whether a call comes to its end does not depend on what the other calls
\* ask for: the first slot takes every request, a further slot a request
\* that changes the store and one that is answered by another collaborator.
FairRequestsOf(c) ==
    IF c = 1 THEN Requests
    ELSE {[name |-> "mongodb_insert_document",
           args |-> [databaseName |-> "d", collectionName |-> "c", document |-> JohnDocText]],
          [name |-> "open_application", args |-> [appName |-> "Safari"]]}

FairNext ==
    \/ \E c \in Calls : \E r \in FairRequestsOf(c) : CallTool(c, r)
    \/ \E c \in Calls : ListTools(c)
    \/ \E c \in Calls : ExecReply(c)
    \/ \E c \in Calls : FetchReply(c)
    \/ \E c \in Calls : ConnectFails(c)
    \/ \E c \in Calls : ConnectOk(c)
    \/ \E c \in Calls : OpReply(c)
    \/ \E c \in Calls : CloseReply(c)
    \/ \E c \in Calls : Respond(c)

FairSpec == Init /\ [][FairNext]_vars /\ \A c \in Calls : WF_vars(Answered(c))

\* ------------------------------------------------------- store history

\* The same server, with the store as it was on arrival kept for each call.
CallToolTracked(c, r) == Arrive(c, r) /\ before' = [before EXCEPT ![c] = store]

TrackedNext ==
    \/ \E c \in Calls : \E r \in RequestsOf(c) : CallToolTracked(c, r)
    \/ \E c \in Calls : ListTools(c)
    \/ \E c \in Calls : ExecReply(c)
    \/ \E c \in Calls : FetchReply(c)
    \/ \E c \in Calls : ConnectFails(c)
    \/ \E c \in Calls : ConnectOk(c)
    \/ \E c \in Calls : OpReply(c)
    \/ \E c \in Calls : CloseReply(c)
    \/ \E c \in Calls : Respond(c)

TrackedSpec == Init /\ [][TrackedNext]_vars

\* ------------------------------------------------------- overlapping calls

\* The call handler is async and nothing in the server queues or locks: while
\* one handler awaits its collaborator the protocol layer may start the
\* handler of the next request.  MaxOverlap requests are handled at the same
\* time; each slot takes the requests that change the store and one request
\* of each other adapter family.
ConcCalls == 1..MaxOverlap

ConcRequests ==
    {[name |-> "mongodb_insert_document",
      args |-> [databaseName |-> "d", collectionName |-> "c", document |-> JohnDocText]],
     [name |-> "mongodb_delete_document",
      args |-> [databaseName |-> "d", collectionName |-> "c", filter |-> JohnFilterText]],
     [name |-> "open_application", args |-> [appName |-> "Safari"]],
     [name |-> "ollama_list_models", args |-> NoArgs]}

ConcInit ==
    /\ pc = [c \in ConcCalls |-> "idle"]
    /\ req = [c \in ConcCalls |-> NoRequest]
    /\ pend = [c \in ConcCalls |-> Nothing]
    /\ log = [c \in ConcCalls |-> << >>]
    /\ res = [c \in ConcCalls |-> NoResult]
    /\ ended = [c \in ConcCalls |-> Nothing]
    /\ got = [c \in ConcCalls |-> NoReply]
    /\ conns = 0
    /\ store = InitialStore
    /\ before = [c \in ConcCalls |-> EmptyStore]
    /\ heard = [c \in ConcCalls |-> << >>]
    /\ proc = "running"

ConcNext ==
    \/ \E c \in ConcCalls : \E r \in ConcRequests : CallTool(c, r)
    \/ \E c \in ConcCalls : ListTools(c)
    \/ \E c \in ConcCalls : ExecReply(c)
    \/ \E c \in ConcCalls : FetchReply(c)
    \/ \E c \in ConcCalls : ConnectFails(c)
    \/ \E c \in ConcCalls : ConnectOk(c)
    \/ \E c \in ConcCalls : OpReply(c)
    \/ \E c \in ConcCalls : CloseReply(c)
    \/ \E c \in ConcCalls : Respond(c)

ConcSpec == ConcInit /\ [][ConcNext]_vars

\* ------------------------------------------------------------ interrupt

\* How the SIGINT handler ends once the awaited server.close() has settled:
\* process.exit(0) after a close that succeeded.  A close that failed rejects
\* the async handler before process.exit(0) is reached, and nothing catches
\* it: Node (v18+, as the README asks for) ends the process on an unhandled
\* rejection, with exit code 1.
SigintHandlerEnds(closeOk) == IF closeOk THEN "exit0" ELSE "exit1"

\* SIGINT arrives: the handler calls server.close() and awaits it.
Sigint ==
    /\ proc = "running"
    /\ proc' = "closing"
    /\ UNCHANGED <<pc, req, pend, log, res, ended, got, store, conns, before, heard>>

\* server.close() settles and the handler ends.
ServerCloseReply ==
    /\ proc = "closing"
    /\ \E closeOk \in BOOLEAN : proc' = SigintHandlerEnds(closeOk)
    /\ UNCHANGED <<pc, req, pend, log, res, ended, got, store, conns, before, heard>>

\* The server with the interrupt signal: requests are served until the
\* process has exited.
SignalNext ==
    \/ Next
    \/ Sigint
    \/ ServerCloseReply

SignalSpec == Init /\ [][SignalNext]_vars /\ WF_vars(ServerCloseReply)

\* ===================================================================
\* Properties
\* ===================================================================

Done(c) == pc[c] = "done"
IsCall(c) == Done(c) /\ req[c] # ListRequest
RegisteredNames == {ToolDescriptors[i].name : i \in 1..Len(ToolDescriptors)}
CaseNames == ProcessCases \cup OllamaCases \cup MongoCases

\* A Tool Result: a content sequence of text entries and, at most, an isError flag.
IsToolResult(r) ==
    /\ "content" \in DOMAIN r
    /\ DOMAIN r \subseteq {"content", "isError"}
    /\ \A i \in 1..Len(r.content) : r.content[i].type = "text"

IsErrorResult(r) == IsToolResult(r) /\ "isError" \in DOMAIN r /\ r.isError = TRUE
TextOf(r) == r.content[1].text
ErrorResult(text) == [content |-> << [type |-> "text", text |-> text] >>, isError |-> TRUE]
CloseCount(c) == Cardinality({i \in 1..Len(log[c]) : log[c][i].op = "close"})
OpCount(c, name) == Cardinality({i \in 1..Len(log[c]) : log[c][i].op = name})
InFlight(c) == pc[c] \in {"exec", "fetch", "connect", "op", "close"}
ConnectFailedReply == [kind |-> "connect", ok |-> FALSE]

\* C1: every tools/call request, whatever its name, its arguments and the
\* collaborator's behaviour, ends with the handler returning a Tool Result;
\* the handler promise never rejects, and a call in flight can always go on.
C1_CallAlwaysReturnsToolResult ==
    \A c \in Calls :
        /\ IsCall(c) => IsToolResult(res[c])
        /\ InFlight(c) =>
              /\ res[c] = NoResult
              /\ ENABLED (ExecReply(c) \/ FetchReply(c) \/ ConnectFails(c) \/ ConnectOk(c)
                          \/ OpReply(c) \/ CloseReply(c))

\* C1 witness: the operation succeeded, the release failed, a Tool Result came back.
C1_Witness ==
    \E c \in Calls :
        /\ IsCall(c) /\ req[c].name \in MongoCases
        /\ got[c] = [kind |-> "close", ok |-> FALSE]
        /\ pend[c].kind = "return"
        /\ IsToolResult(res[c])

\* C2 as stated: a raised failure gives isError=true and one text entry whose
\* text is "Error: " followed by the failure's message.
C2_ErrorPrefixedInEnglish ==
    \A c \in Calls :
        IsCall(c) /\ ended[c].kind = "throw"
            => res[c] = ErrorResult(<<"Error: ">> \o ErrMsg(ended[c].error))

\* C2 amended: a raised failure gives isError=true and one text entry whose
\* text is the source's Russian prefix (transliterated "Oshibka: ") followed
\* by the failure's message.
C2_ErrorEnvelope ==
    \A c \in Calls :
        IsCall(c) /\ ended[c].kind = "throw"
            => res[c] = ErrorResult(<<"Oshibka: ">> \o ErrMsg(ended[c].error))

\* C2 witness: a collaborator fault of ollama_generate came back as an error result.
C2_Witness ==
    \E c \in Calls :
        /\ IsCall(c) /\ req[c].name = "ollama_generate"
        /\ ended[c].kind = "throw" /\ got[c].kind = "status"
        /\ IsErrorResult(res[c])

\* C3 as stated: when the adapter returns, the Tool Result carries an
\* explicit isError=false with the adapter's text.
C3_SuccessCarriesFalseFlag ==
    \A c \in Calls :
        IsCall(c) /\ ended[c].kind = "return"
            => /\ "isError" \in DOMAIN res[c]
               /\ res[c].isError = FALSE
               /\ res[c].content = ended[c].result.content

\* C3 amended: when the adapter returns, the Tool Result is the adapter's
\* one text entry and carries no isError field at all.
C3_SuccessCarriesNoFlag ==
    \A c \in Calls :
        IsCall(c) /\ ended[c].kind = "return"
            => /\ res[c] = ended[c].result
               /\ DOMAIN res[c] = {"content"}
               /\ Len(res[c].content) = 1
               /\ res[c].content[1].type = "text"

\* C3 witness: mongodb_find_documents returned.
C3_Witness ==
    \E c \in Calls :
        /\ IsCall(c) /\ req[c].name = "mongodb_find_documents"
        /\ ended[c].kind = "return"
        /\ "isError" \notin DOMAIN res[c]

\* C4: a call with an unregistered name returns isError=true with a message
\* that says the tool is unknown and contains the name; no adapter runs and
\* no collaborator is called.
C4_UnknownToolRejected ==
    \A c \in Calls :
        IsCall(c) /\ req[c].name \notin RegisteredNames
            => /\ IsErrorResult(res[c])
               /\ Includes(TextOf(res[c]), "Neizvestnyi instrument: ")
               /\ Includes(TextOf(res[c]), req[c].name)
               /\ log[c] = << >>
               /\ got[c] = NoReply
               /\ pend[c] = Nothing

\* C4 witness: the call of "__nonexistent__" has been answered.
C4_Witness ==
    \E c \in Calls :
        IsCall(c) /\ req[c].name = "__nonexistent__" /\ IsErrorResult(res[c])

\* C5: the descriptor names and the names the switch routes are the same set,
\* each descriptor name occurring once; a call reaches an adapter exactly
\* when its name has a descriptor.
C5_RegistryMatchesRouting ==
    /\ Cardinality(RegisteredNames) = Len(ToolDescriptors)
    /\ \A n \in RegisteredNames \cup CaseNames : n \in RegisteredNames /\ Route(n) # "default"
    /\ \A c \in Calls :
          IsCall(c) =>
              /\ req[c].name \in RegisteredNames <=> log[c] # << >>
              /\ req[c].name \in RegisteredNames <=> ended[c] # Thr(UnknownTool(req[c].name))

\* C5 witness: the last declared tool was routed to its adapter.
C5_Witness ==
    \E c \in Calls :
        IsCall(c) /\ req[c].name = "mongodb_delete_document" /\ log[c] # << >>

\* The tool names in declaration order.
DeclaredOrder ==
    <<"open_application", "get_running_applications", "run_applescript",
      "quit_application", "open_file_with_app", "ollama_generate", "ollama_list_models",
      "mongodb_create_database", "mongodb_list_databases", "mongodb_create_collection",
      "mongodb_list_collections", "mongodb_delete_collection", "mongodb_insert_document",
      "mongodb_find_documents", "mongodb_delete_document">>

\* C6: every tools/list reply, whatever calls came before it, is the same
\* sequence of descriptors in declaration order.
C6_ListIsFixed ==
    \A c \in Calls :
        Done(c) /\ req[c] = ListRequest
            => /\ res[c] = [tools |-> ToolDescriptors]
               /\ [i \in 1..Len(res[c].tools) |-> res[c].tools[i].name] = DeclaredOrder

\* C6 witness: a tools/list reply given after tool calls have emptied the store.
C6_Witness ==
    \E c \in Calls :
        Done(c) /\ req[c] = ListRequest /\ res[c] = listTools /\ store = EmptyStore

\* C7: a document-store call that acquired a connection calls close on it
\* exactly once, after its last operation, on every path (success, database
\* fault, parse failure); a call that could not connect calls it never; the
\* connections open are those of the calls in flight, none once all ended.
C7_ConnectionReleasedOnce ==
    /\ conns = Cardinality({c \in Calls : pc[c] \in {"op", "close"}})
    /\ \A c \in Calls :
          /\ pc[c] = "op" => CloseCount(c) = 0
          /\ pc[c] = "close" => CloseCount(c) = 1 /\ log[c][Len(log[c])].op = "close"
          /\ IsCall(c) /\ Route(req[c].name) = "mongo" =>
                IF got[c] = ConnectFailedReply
                THEN CloseCount(c) = 0 /\ Len(log[c]) = 1
                ELSE /\ got[c].kind = "close"
                     /\ CloseCount(c) = 1
                     /\ log[c][Len(log[c])].op = "close"

\* C7 witness: an insert whose document did not parse ended with its one close
\* done and no connection left open.
C7_Witness ==
    \E c \in Calls :
        /\ IsCall(c) /\ req[c].name = "mongodb_insert_document"
        /\ Has(req[c].args, "document") /\ ~JSONParse(req[c].args, "document").ok
        /\ CloseCount(c) = 1
        /\ conns = 0

BadInsert(c) ==
    /\ req[c].name = "mongodb_insert_document"
    /\ Has(req[c].args, "document")
    /\ ~JSONParse(req[c].args, "document").ok

\* The result text carries the message of the SyntaxError JSON.parse raised.
HasParseMessage(c, k) ==
    \A i \in 1..Len(JSONParse(req[c].args, k).error.message) :
        Includes(TextOf(res[c]), JSONParse(req[c].args, k).error.message[i])

\* C8 as stated: an insert whose document is not valid JSON returns
\* isError=true with a parse-error message, never invokes insertOne, and
\* releases the connection it acquired.
C8_BadDocumentGivesParseError ==
    \A c \in Calls :
        BadInsert(c) =>
            /\ OpCount(c, "insertOne") = 0
            /\ Done(c) => /\ IsErrorResult(res[c])
                          /\ HasParseMessage(c, "document")
                          /\ got[c] # ConnectFailedReply => CloseCount(c) = 1

\* C8 amended: such an insert returns isError=true, never invokes insertOne
\* and releases the connection it acquired; the message is the parse error's
\* exactly when the connection was established and its release succeeded (a
\* failed connect or a failed release puts its own message there).
C8_BadDocumentRejected ==
    \A c \in Calls :
        BadInsert(c) =>
            /\ OpCount(c, "insertOne") = 0
            /\ Done(c) => /\ IsErrorResult(res[c])
                          /\ got[c] # ConnectFailedReply => CloseCount(c) = 1
                          /\ got[c] = ConnectFailedReply => CloseCount(c) = 0
                          /\ HasParseMessage(c, "document")
                                <=> got[c] = [kind |-> "close", ok |-> TRUE]

\* C8 witness: the parse error came back after the connection was released.
C8_Witness ==
    \E c \in Calls :
        /\ BadInsert(c) /\ Done(c)
        /\ got[c] = [kind |-> "close", ok |-> TRUE]
        /\ HasParseMessage(c, "document")
        /\ log[c] = << [op |-> "connect", uri |-> MONGODB_URI], [op |-> "close"] >>

\* The find operations a call has issued.
FindOps(c) == {i \in 1..Len(log[c]) : log[c][i].op = "find"}

\* C9 as stated: find is issued with the empty filter when no filter is
\* given and with limit 100 when no limit is given; a filter or limit that
\* is given is the one used.
C9_SuppliedFilterAndLimitUsed ==
    \A c \in Calls :
        req[c].name = "mongodb_find_documents" =>
            \A i \in FindOps(c) :
                /\ ~Has(req[c].args, "filter") => log[c][i].filter = << >>
                /\ ~Has(req[c].args, "limit") => log[c][i].limit = 100
                /\ Has(req[c].args, "filter") =>
                      /\ JSONParse(req[c].args, "filter").ok
                      /\ log[c][i].filter = JSONParse(req[c].args, "filter").value
                /\ Has(req[c].args, "limit") => log[c][i].limit = req[c].args.limit

\* C9 amended: find is issued with the empty filter when the filter is
\* absent or the empty string, with the parsed filter when a non-empty one is
\* given, with limit 100 when no limit is given and with the given limit
\* otherwise; a call issues at most one find.
C9_FindFilterAndLimit ==
    \A c \in Calls :
        req[c].name = "mongodb_find_documents" =>
            /\ Cardinality(FindOps(c)) <= 1
            /\ \A i \in FindOps(c) :
                /\ (~Has(req[c].args, "filter") \/ Str(req[c].args, "filter") = "")
                      => log[c][i].filter = << >>
                /\ (Has(req[c].args, "filter") /\ Str(req[c].args, "filter") # "")
                      => /\ JSONParse(req[c].args, "filter").ok
                         /\ log[c][i].filter = JSONParse(req[c].args, "filter").value
                /\ ~Has(req[c].args, "limit") => log[c][i].limit = 100
                /\ Has(req[c].args, "limit") => log[c][i].limit = req[c].args.limit

\* C9 witness: a find without filter and limit was issued on d.c.
C9_Witness ==
    \E c \in Calls :
        /\ req[c].name = "mongodb_find_documents"
        /\ req[c].args = DC
        /\ \E i \in FindOps(c) : log[c][i].filter = << >> /\ log[c][i].limit = 100

\* The text names the failure to connect and the endpoint URL.
IsConnectivityText(text) ==
    /\ Includes(text, "Ne udalos' podklyuchit'sya k Ollama serveru (")
    /\ Includes(text, OLLAMA_API_URL)

\* C10: ollama_generate against an unreachable endpoint returns isError=true
\* with the connectivity message, which names the endpoint; after a
\* non-success status or an unparsable reply it returns isError=true with the
\* generic fault message, never the connectivity one.
C10_ConnectivityMessage ==
    \A c \in Calls :
        IsCall(c) /\ req[c].name = "ollama_generate" =>
            /\ got[c].kind = "unreachable" =>
                  /\ IsErrorResult(res[c])
                  /\ IsConnectivityText(TextOf(res[c]))
                  /\ ~Includes(TextOf(res[c]), "Oshibka Ollama: ")
            /\ got[c].kind \in {"status", "badjson"} =>
                  /\ IsErrorResult(res[c])
                  /\ ~IsConnectivityText(TextOf(res[c]))
                  /\ Includes(TextOf(res[c]), "Oshibka Ollama: ")

\* C10 witness: the endpoint was unreachable and the connectivity message came back.
C10_Witness ==
    \E c \in Calls :
        /\ IsCall(c) /\ req[c].name = "ollama_generate"
        /\ got[c].kind = "unreachable"
        /\ IsConnectivityText(TextOf(res[c]))

\* The documents of d.c that carry name John.
JohnDocs(st) == SelectSeq(st.docs, LAMBDA d : "name" \in DOMAIN d.body /\ d.body.name = "John")

\* Slot c's awaited database operation replies successfully in this step.
OpAnswered(c) ==
    pc[c] = "op" /\ pc'[c] = "close" /\ got'[c] = [kind |-> "op", ok |-> TRUE]

InsertsJohn(c) ==
    /\ req[c].name = "mongodb_insert_document"
    /\ Has(req[c].args, "document") /\ req[c].args.document = JohnDocText

FindsJohn(c) ==
    /\ req[c].name = "mongodb_find_documents"
    /\ Has(req[c].args, "filter") /\ req[c].args.filter = JohnFilterText

\* The find result text for exactly the one document {name John, age 30} with identifier id.
OneJohnText(id) ==
    <<"Naideno dokumentov: ", "1", "\n\n[", "{ \"_id\": \"", "oid-">> \o NumStr(id)
    \o <<"\", \"name\": \"", "John", "\", \"age\": ", "3", "0", " }", "]">>

\* C11: round trip.  When the store answers both operations: an insert of
\* {"name":"John","age":30} into a collection without a John document leaves
\* exactly one, with the inserted fields, under the identifier the insert
\* reports; a find with filter {"name":"John"} on that collection then
\* returns, without error, exactly that one document, its fields equal to
\* the inserted ones and its identifier rendered as a string.
C11_InsertThenFindRoundTrip ==
    [][\A c \in Calls :
          /\ (OpAnswered(c) /\ InsertsJohn(c) /\ JohnDocs(store) = << >>) =>
                /\ Len(JohnDocs(store')) = 1
                /\ JohnDocs(store')[1].body = [name |-> "John", age |-> 30]
                /\ pend'[c].kind = "return"
                /\ Includes(TextOf(pend'[c].result), "oid-")
                /\ TextOf(pend'[c].result)[Len(TextOf(pend'[c].result))]
                      = NumStr(JohnDocs(store')[1].id)[1]
          /\ (OpAnswered(c) /\ FindsJohn(c) /\ Len(JohnDocs(store)) = 1) =>
                /\ pend'[c] = Ret(OneJohnText(JohnDocs(store)[1].id))
                /\ "isError" \notin DOMAIN pend'[c].result
      ]_vars

\* C11 witness: after the insert, the find of John has returned the one
\* document under the identifier the store gave it.
C11_Witness ==
    \E c \in Calls :
        /\ IsCall(c) /\ FindsJohn(c)
        /\ Len(JohnDocs(store)) = 1
        /\ res[c] = TextResult(OneJohnText(2))
        /\ got[c] = [kind |-> "close", ok |-> TRUE]

\* The database operations a call has issued between connect and close.
DbOps(c) == SelectSeq(log[c], LAMBDA e : e.op \notin {"connect", "close", "exec", "fetch"})

\* The call's arguments are rejected in the try block before anything is
\* issued: a JSON argument does not parse, or the collection name is missing.
ArgsRejectable(c) ==
    \/ req[c].name \in {"mongodb_delete_collection", "mongodb_insert_document",
                        "mongodb_find_documents", "mongodb_delete_document"}
          /\ ~Has(req[c].args, "collectionName")
    \/ req[c].name = "mongodb_insert_document" /\ ~JSONParse(req[c].args, "document").ok
    \/ req[c].name = "mongodb_find_documents" /\ ~FindFilter(req[c].args).ok
    \/ req[c].name = "mongodb_delete_document" /\ ~JSONParse(req[c].args, "filter").ok

TempNs(c) == [db |-> Db(req[c].args), coll |-> "_temp"]

\* The call itself created "_temp": its createCollection succeeded, after
\* which it issued the drop.
CreatedTemp(c) ==
    /\ req[c].name = "mongodb_create_database"
    /\ Len(DbOps(c)) = 2
    /\ DbOps(c)[1] = [op |-> "createCollection", ns |-> TempNs(c)]

\* C13: a tool call that returns isError=true leaves no partial effect in
\* the store; in particular a failing mongodb_create_database leaves no
\* collection behind that was not there before the call.
C13_FailedCallLeavesNoPartialEffect ==
    \A c \in Calls :
        (IsCall(c) /\ IsErrorResult(res[c]) /\ CreatedTemp(c))
            => TempNs(c) \notin store.colls

\* The text mongodb_list_databases returns when the store, in state st, answers it.
ListDatabasesText(st) ==
    MongoText([name |-> "mongodb_list_databases", args |-> NoArgs],
              (CHOOSE r \in MongoApply(st, [op |-> "listDatabases"]) : TRUE).value)

\* C14: once mongodb_create_database(d) has returned a non-error result, the
\* database d exists in the store: mongodb_list_databases, asked next, lists d.
C14_CreatedDatabaseIsListed ==
    \A c \in Calls :
        (/\ IsCall(c) /\ req[c].name = "mongodb_create_database"
         /\ Has(req[c].args, "databaseName")
         /\ ~IsErrorResult(res[c]))
            => /\ \E ns \in store.colls : ns.db = req[c].args.databaseName
               /\ Includes(ListDatabasesText(store), req[c].args.databaseName)

\* C15: after an interrupt signal the process exits only once the server
\* close has settled, and with status 0 on every path, the path where
\* closing the server fails included.
C15_InterruptExitsWithZero ==
    /\ ~Alive => proc = "exit0"
    /\ proc \in {"running", "closing", "exit0", "exit1"}

\* C16: no tool-call fault is fatal or leaves a trace: once a call has ended
\* with isError=true the server is still running, and what later requests
\* are answered from, the store, is as it was without the failed call.
C16_FailedCallLeavesServerAsItWas ==
    \A c \in Calls :
        (IsCall(c) /\ IsErrorResult(res[c]))
            => /\ proc = "running"
               /\ store = before[c]

\* The calls that have begun their adapter operation and have no result yet.
CallsInFlight == {c \in ConcCalls : InFlight(c)}

\* C17 as stated: at most one tool call is in flight at any moment; a second
\* request does not begin its adapter operation before the previous call's
\* Tool Result is there.
C17_OneCallAtATime == Cardinality(CallsInFlight) <= 1

\* C17 amended: each call awaits its own adapter operation to completion
\* before its Tool Result is produced (no result while its collaborator call
\* is outstanding, and a result only after the collaborator answered), but
\* calls are not serialized against each other: the server has no queue or
\* lock, so further calls may be in flight at the same time.
C17_EachCallAwaitsItsOwnOperation ==
    \A c \in ConcCalls :
        /\ InFlight(c) =>
              /\ res[c] = NoResult /\ ended[c] = Nothing
              /\ Len(log[c]) >= 1
        /\ (pc[c] = "done" /\ req[c] # ListRequest) =>
              /\ res[c] # NoResult
              /\ Route(req[c].name) = "process" => got[c] \in ExecReplies(req[c].name)
              /\ Route(req[c].name) = "ollama" => got[c] \in FetchReplies(req[c].name)
              /\ Route(req[c].name) = "mongo" =>
                    got[c] = ConnectFailedReply \/ got[c].kind = "close"

\* C17 witness: two calls are in flight at once, one awaiting its database
\* operation and one awaiting its command, neither with a result yet.
C17_Witness ==
    \E c1, c2 \in ConcCalls :
        /\ c1 # c2
        /\ pc[c1] = "op" /\ pc[c2] = "exec"
        /\ res[c1] = NoResult /\ res[c2] = NoResult

\* Everything the server holds for the call in slot c, now and after the step.
Slot(c) == <<pc[c], req[c], pend[c], log[c], res[c], ended[c], got[c]>>
SlotNext(c) == <<pc'[c], req'[c], pend'[c], log'[c], res'[c], ended'[c], got'[c]>>

ConnectCount(c) == Cardinality({i \in 1..Len(log[c]) : log[c][i].op = "connect"})

\* What the call in slot c returns when it runs alone and its collaborator
\* gives it the replies it got.
ResultAlone(c) ==
    CASE Route(req[c].name) = "process" -> Settle(ProcessOutcome(req[c], got[c]))
      [] Route(req[c].name) = "ollama" -> Settle(OllamaOutcome(req[c], got[c]))
      [] Route(req[c].name) = "mongo" ->
            IF got[c] = ConnectFailedReply THEN Settle(ConnectFailed)
            ELSE Settle(Finally(pend[c], got[c].ok))
      [] OTHER -> Settle(Thr(UnknownTool(req[c].name)))

\* Each call has its own connection: it closes only after its own connect,
\* once, and the open connections are those of the calls between connect
\* and close; a call that has ended holds the result it would have alone.
CallsIsolated ==
    /\ conns = Cardinality({c \in ConcCalls : pc[c] \in {"op", "close"}})
    /\ \A c \in ConcCalls :
          /\ CloseCount(c) <= ConnectCount(c) /\ ConnectCount(c) <= 1
          /\ CloseCount(c) = 1 => log[c][1].op = "connect" /\ log[c][Len(log[c])].op = "close"
          /\ (pc[c] = "done" /\ req[c] # ListRequest) => res[c] = ResultAlone(c)
          /\ (pc[c] = "done" /\ req[c] = ListRequest) => res[c] = listTools

\* C18: calls in flight at the same time do not touch each other.  Under
\* every interleaving a step changes what the server holds for one call
\* only; each call uses the connection or request it issued itself and
\* releases only the connection it acquired; and each call returns the
\* result it would have returned alone against the same collaborator replies.
C18_ConcurrentCallsIsolated ==
    [][/\ \A c1, c2 \in ConcCalls :
              c1 # c2 => (SlotNext(c1) = Slot(c1) \/ SlotNext(c2) = Slot(c2))
       /\ CallsIsolated'
      ]_vars

\* C18 witness: an insert has returned its result while a delete that began
\* before the insert ended is still releasing its connection.
C18_Witness ==
    \E c1, c2 \in ConcCalls :
        /\ c1 # c2
        /\ pc[c1] = "done" /\ req[c1].name = "mongodb_insert_document"
        /\ ended[c1].kind = "return"
        /\ pc[c2] = "close" /\ req[c2].name = "mongodb_delete_document"
        /\ pend[c2] = Ret(<<"Udaleno dokumentov: ", "0">>)
        /\ conns = 1

\* The generate request a call of ollama_generate has sent.
IsGenerate(c) == req[c].name = "ollama_generate" /\ Len(log[c]) >= 1

\* C19 as stated: the generate request carries model "llama3.2" when the
\* model argument is omitted and the supplied value whenever one is
\* supplied; the prompt is forwarded unchanged.
C19_SuppliedModelUsed ==
    \A c \in Calls :
        IsGenerate(c) =>
            /\ ~Has(req[c].args, "model") => log[c][1].body.model = "llama3.2"
            /\ Has(req[c].args, "model") => log[c][1].body.model = req[c].args.model
            /\ Has(req[c].args, "prompt") => log[c][1].body.prompt = req[c].args.prompt

\* C19 amended: the generate request carries model "llama3.2" when the
\* model argument is omitted or is the empty string, and the supplied value
\* when a non-empty one is supplied; the prompt is forwarded unchanged, and
\* left out of the body when it is absent; exactly one POST to /api/generate.
C19_GenerateModelAndPrompt ==
    \A c \in Calls :
        IsGenerate(c) =>
            /\ Len(log[c]) = 1
            /\ log[c][1].op = "fetch" /\ log[c][1].method = "POST"
            /\ log[c][1].url = <<"http://localhost:11434", "/api/generate">>
            /\ (~Has(req[c].args, "model") \/ Str(req[c].args, "model") = "")
                  => log[c][1].body.model = "llama3.2"
            /\ (Has(req[c].args, "model") /\ Str(req[c].args, "model") # "")
                  => log[c][1].body.model = req[c].args.model
            /\ Has(req[c].args, "prompt") => log[c][1].body.prompt = req[c].args.prompt
            /\ ~Has(req[c].args, "prompt") => "prompt" \notin DOMAIN log[c][1].body
            /\ log[c][1].body.stream = FALSE

\* C19 witness: a call with model "mistral" has sent its request with that
\* model and got the reply.
C19_Witness ==
    \E c \in Calls :
        /\ IsCall(c) /\ IsGenerate(c)
        /\ Has(req[c].args, "model") /\ req[c].args.model = "mistral"
        /\ log[c][1].body = [model |-> "mistral", prompt |-> "hi", stream |-> FALSE]
        /\ got[c].kind = "json"

\* C20: in every document-store call the connection is acquired first,
\* before anything else of the operation; its release is issued after the
\* call's last database operation and has settled before the call's Tool
\* Result is produced: no result while connect, an operation or the release
\* is outstanding, and no database operation after the release.
C20_ReleaseBeforeResult ==
    \A c \in Calls :
        Route(req[c].name) = "mongo" =>
            /\ Len(log[c]) >= 1 /\ log[c][1].op = "connect"
            /\ \A i \in 1..Len(log[c]) :
                  /\ log[c][i].op = "connect" => i = 1
                  /\ log[c][i].op = "close" => i = Len(log[c]) /\ i > 1
            /\ pc[c] \in {"connect", "op", "close"} => res[c] = NoResult
            /\ res[c] # NoResult =>
                  IF got[c] = ConnectFailedReply
                  THEN Len(log[c]) = 1
                  ELSE got[c].kind = "close" /\ log[c][Len(log[c])].op = "close"

\* C20 witness: mongodb_delete_document deleted, released its connection
\* and then returned its result.
C20_Witness ==
    \E c \in Calls :
        /\ IsCall(c) /\ req[c].name = "mongodb_delete_document"
        /\ Len(log[c]) = 3 /\ log[c][2].op = "deleteMany" /\ log[c][3].op = "close"
        /\ got[c] = [kind |-> "close", ok |-> TRUE]
        /\ res[c] = TextResult(<<"Udaleno dokumentov: ", "1">>)

\* The last reply the call in slot c got from its collaborator was a failure.
LastReplyFailed(c) ==
    CASE Route(req[c].name) = "process" -> "ok" \in DOMAIN got[c] /\ ~got[c].ok
      [] Route(req[c].name) = "ollama" -> got[c] \in FetchFaults
      [] Route(req[c].name) = "mongo" -> "ok" \in DOMAIN got[c] /\ ~got[c].ok
      [] OTHER -> FALSE

\* Which collaborator call the last reply answered.
GotKind(c) == IF "kind" \in DOMAIN got[c] THEN got[c].kind ELSE "exec"

\* A database operation of the call was rejected: the try block ended in its
\* catch after having issued something.
OpFailed(c) ==
    Route(req[c].name) = "mongo" /\ pend[c].kind = "throw" /\ Len(DbOps(c)) >= 1

\* C21: nothing is retried.  No collaborator call is issued twice within a
\* tool call; after a failed spawn, HTTP request or connect the call issues
\* nothing more, after a failed database operation only the release; and a
\* call in which a collaborator call failed ends with an error result.
C21_NothingRetried ==
    \A c \in Calls :
        /\ \A i, j \in 1..Len(log[c]) : i # j => log[c][i].op # log[c][j].op
        /\ (LastReplyFailed(c) /\ GotKind(c) \notin {"op", "close"})
              => Len(log[c]) = 1 /\ pc[c] = "done"
        /\ (LastReplyFailed(c) /\ GotKind(c) = "op")
              => /\ pc[c] = "close" /\ pend[c].kind = "throw"
                 /\ log[c][Len(log[c])].op = "close"
        /\ (IsCall(c) /\ (LastReplyFailed(c) \/ OpFailed(c))) => IsErrorResult(res[c])

\* C21 witness: ollama_list_models found the endpoint unreachable and ended
\* with an error result after its one request.
C21_Witness ==
    \E c \in Calls :
        /\ IsCall(c) /\ req[c].name = "ollama_list_models"
        /\ got[c].kind = "unreachable"
        /\ Len(log[c]) = 1
        /\ IsErrorResult(res[c])

\* The request in slot c names a registered tool and lacks an argument the
\* tool's descriptor declares required.
LacksRequired(c) ==
    /\ req[c].name \in RegisteredNames
    /\ \E k \in RequiredOf(req[c].name) : ~Has(req[c].args, k)

\* C22: the dispatcher checks no required argument.  A call of a registered
\* tool that lacks a required argument still reaches the tool's adapter,
\* which issues its first collaborator call with the argument undefined (the
\* text "undefined" in a command line, no prompt in the generate body, the
\* connect of a document-store tool), and whatever comes of it is delivered
\* as a Tool Result.
C22_NoUpfrontArgumentCheck ==
    \A c \in Calls :
        LacksRequired(c) =>
            /\ Len(log[c]) >= 1
            /\ Route(req[c].name) = "process" =>
                  log[c][1].op = "exec" /\ Includes(log[c][1].cmd, "undefined")
            /\ Route(req[c].name) = "ollama" =>
                  log[c][1].op = "fetch" /\ "prompt" \notin DOMAIN log[c][1].body
            /\ Route(req[c].name) = "mongo" => log[c][1].op = "connect"
            /\ Done(c) => /\ IsToolResult(res[c])
                          /\ GotKind(c) # "none"

\* C22 witness: open_application without appName ran its command on the
\* text "undefined" and the outcome came back as a Tool Result.
C22_Witness ==
    \E c \in Calls :
        /\ IsCall(c) /\ req[c] = [name |-> "open_application", args |-> NoArgs]
        /\ log[c] = << [op |-> "exec", cmd |-> <<"open -a \"", "undefined", "\"">>] >>
        /\ IsToolResult(res[c])
        /\ "isError" \notin DOMAIN res[c]

\* The call in slot c is a find or a delete_document whose supplied filter
\* is not valid JSON.
BadFilter(c) ==
    /\ req[c].name \in {"mongodb_find_documents", "mongodb_delete_document"}
    /\ Has(req[c].args, "filter")
    /\ ~JSONParse(req[c].args, "filter").ok

ReleasedOk(c) == got[c] = [kind |-> "close", ok |-> TRUE]

\* C23 as stated: a supplied filter that is not valid JSON, the empty string
\* included, makes find and delete_document return isError=true with the
\* parse-error message (where the call got to parse and its release
\* succeeded), and find or deleteMany is not invoked.
C23_BadFilterNeverForwarded ==
    \A c \in Calls :
        BadFilter(c) =>
            /\ OpCount(c, "find") = 0 /\ OpCount(c, "deleteMany") = 0
            /\ Done(c) => /\ IsErrorResult(res[c])
                          /\ ReleasedOk(c) => HasParseMessage(c, "filter")

\* C23 amended: as stated for every non-empty supplied filter that is not
\* valid JSON, and for the empty string in delete_document; the message is
\* the parse error's exactly when the connection was established and its
\* release succeeded.  In find the empty string counts as no filter: it is
\* not parsed and find is invoked with the empty filter {}.
C23_BadFilterRejectedUnlessEmptyInFind ==
    \A c \in Calls :
        BadFilter(c) =>
            IF req[c].name = "mongodb_find_documents" /\ req[c].args.filter = ""
            THEN /\ \A i \in FindOps(c) : log[c][i].filter = << >>
                 /\ pc[c] \in {"op", "close", "done"} /\ got[c] # ConnectFailedReply
                       => Cardinality(FindOps(c)) = 1
                 /\ Done(c) => ~HasParseMessage(c, "filter")
            ELSE /\ OpCount(c, "find") = 0 /\ OpCount(c, "deleteMany") = 0
                 /\ Done(c) => /\ IsErrorResult(res[c])
                               /\ HasParseMessage(c, "filter") <=> ReleasedOk(c)

\* C23 witness: delete_document with the empty string as filter came back
\* with the parse error, nothing deleted.
C23_Witness ==
    \E c \in Calls :
        /\ IsCall(c) /\ req[c].name = "mongodb_delete_document"
        /\ Has(req[c].args, "filter") /\ req[c].args.filter = ""
        /\ ReleasedOk(c)
        /\ HasParseMessage(c, "filter")
        /\ OpCount(c, "deleteMany") = 0

DocOpening == "{ \"_id\": \""
DocsShown(text) == Cardinality({i \in 1..Len(text) : text[i] = DocOpening})
FoundHeader(n) == <<"Naideno dokumentov: ">> \o NumStr(n) \o <<"\n\n[">>
IsPrefix(p, t) == Len(p) <= Len(t) /\ SubSeq(t, 1, Len(p)) = p
FindAnswered(c) ==
    /\ IsCall(c) /\ req[c].name = "mongodb_find_documents"
    /\ ~IsErrorResult(res[c])

\* C24, the count: a non-error find result reports as many documents as it shows.
C24_CountIsShown ==
    \A c \in Calls :
        FindAnswered(c) => IsPrefix(FoundHeader(DocsShown(TextOf(res[c]))), TextOf(res[c]))

\* C24, the identifiers: every document shown carries its identifier as the
\* string of an ObjectId, followed by its name and age fields.
C24_IdentifiersAreStrings ==
    \A c \in Calls :
        FindAnswered(c) =>
            \A i \in 1..Len(TextOf(res[c])) :
                TextOf(res[c])[i] = DocOpening =>
                    /\ TextOf(res[c])[i + 1] = "oid-"
                    /\ \E j \in (i + 2)..Len(TextOf(res[c])) :
                          /\ TextOf(res[c])[j] = "\", \"name\": \""
                          /\ TextOf(res[c])[j + 1] \in {"Ann", "John"}
                          /\ TextOf(res[c])[j + 2] = "\", \"age\": "
                          /\ SubSeq(TextOf(res[c]), j + 3, j + 4) = NumStr(30)

\* C24, the bound: a non-error find result shows at most as many documents
\* as the limit of its find operation.
C24_AtMostLimitShown ==
    \A c \in Calls :
        FindAnswered(c) =>
            \A i \in FindOps(c) : DocsShown(TextOf(res[c])) <= log[c][i].limit

\* C24: in every non-error find result the reported count is the number of
\* documents returned, every document appears with its identifier as a
\* string and its other fields unchanged, and at most limit documents appear.
C24_FindResultFaithful ==
    /\ C24_CountIsShown
    /\ C24_IdentifiersAreStrings
    /\ C24_AtMostLimitShown

\* The collaborator operations that belong to each tool.
OwnOperation(r, o) ==
    CASE r.name = "open_application" ->
            o.op = "exec" /\ Len(o.cmd) = 3 /\ o.cmd[1] = "open -a \""
      [] r.name = "get_running_applications" ->
            o.op = "exec" /\ Len(o.cmd) = 1   \* the one command without arguments
      [] r.name = "run_applescript" ->
            o.op = "exec" /\ Len(o.cmd) = 5 /\ o.cmd[5] = " end tell'"
      [] r.name = "quit_application" ->
            o.op = "exec" /\ Len(o.cmd) = 3 /\ o.cmd[3] = "\" quit end tell'"
      [] r.name = "open_file_with_app" ->
            o.op = "exec" /\ Len(o.cmd) = 5 /\ o.cmd[1] = "open -a \""
      [] r.name = "ollama_generate" ->
            o.op = "fetch" /\ o.method = "POST" /\ o.url[2] = "/api/generate"
      [] r.name = "ollama_list_models" ->
            o.op = "fetch" /\ o.method = "GET" /\ o.url[2] = "/api/tags"
      [] r.name = "mongodb_create_database" ->
            \/ o.op \in {"connect", "close"}
            \/ o.op \in {"createCollection", "drop"} /\ o.ns = [db |-> Db(r.args), coll |-> "_temp"]
      [] r.name = "mongodb_list_databases" ->
            o.op \in {"connect", "listDatabases", "close"}
      [] r.name = "mongodb_create_collection" ->
            \/ o.op \in {"connect", "close"}
            \/ o.op = "createCollection" /\ o.ns = NS(r.args)
      [] r.name = "mongodb_list_collections" ->
            o.op \in {"connect", "listCollections", "close"}
      [] r.name = "mongodb_delete_collection" ->
            \/ o.op \in {"connect", "close"}
            \/ o.op = "drop" /\ o.ns = NS(r.args)
      [] r.name = "mongodb_insert_document" ->
            \/ o.op \in {"connect", "close"}
            \/ o.op = "insertOne" /\ o.ns = NS(r.args)
      [] r.name = "mongodb_find_documents" ->
            \/ o.op \in {"connect", "close"}
            \/ o.op = "find" /\ o.ns = NS(r.args)
      [] r.name = "mongodb_delete_document" ->
            \/ o.op \in {"connect", "close"}
            \/ o.op = "deleteMany" /\ o.ns = NS(r.args)
      [] OTHER -> FALSE

\* C25: routing is exact.  Every collaborator operation a call causes is an
\* operation of its own tool, on the target its arguments name: process
\* tools only spawn their own command, the ollama tools only send their own
\* HTTP request, a mongodb tool only issues its own database operations
\* between connect and close, and a name without a case causes none.
C25_RoutingExact ==
    \A c \in Calls :
        /\ \A i \in 1..Len(log[c]) : OwnOperation(req[c], log[c][i])
        /\ (IsCall(c) /\ req[c].name \in RegisteredNames) => Len(log[c]) >= 1

\* C25 witness: delete_collection ran to its end having connected, dropped
\* the collection it names and closed, and nothing else.
C25_Witness ==
    \E c \in Calls :
        /\ IsCall(c) /\ req[c].name = "mongodb_delete_collection"
        /\ Len(log[c]) = 3
        /\ log[c][2] = [op |-> "drop", ns |-> NsDC]
        /\ log[c][3].op = "close"
        /\ NsDC \notin store.colls

\* The try block from step t on, against the replies h[i], h[i+1], ...
RECURSIVE TryReplay(_, _, _, _)
TryReplay(r, t, h, i) ==
    IF t.kind = "op" THEN TryReplay(r, MongoAfter(r, t.op, h[i]), h, i + 1) ELSE t

\* The Tool Result of request r computed from nothing but r and the replies
\* h its collaborators gave, in order.
ResultOf(r, h) ==
    CASE Route(r.name) = "process" -> Settle(ProcessOutcome(r, h[1]))
      [] Route(r.name) = "ollama" -> Settle(OllamaOutcome(r, h[1]))
      [] Route(r.name) = "mongo" ->
            IF ~h[1].ok THEN Settle(ConnectFailed)
            ELSE LET first == IF h[1].nameRefused THEN Thr(InvalidNamespace)
                              ELSE CHOOSE t \in MongoTry(r) : t # Thr(InvalidNamespace)
                     start == IF first.kind = "throw"
                              THEN MongoCatch(r.name, first.error) ELSE first
                 IN  Settle(Finally(TryReplay(r, start, h, 2), h[Len(h)].ok))
      [] OTHER -> Settle(Thr(UnknownTool(r.name)))

\* What the server holds for a slot no request occupies.
SlotIsBlank(c) ==
    /\ req[c] = NoRequest /\ pend[c] = Nothing /\ log[c] = << >>
    /\ res[c] = NoResult /\ ended[c] = Nothing /\ got[c] = NoReply

\* C26: the server retains nothing across calls.  Once a call is answered the
\* server holds nothing of it, and the Tool Result of every call, whatever
\* calls came before it and whatever they left in the store, is the value one
\* function gives for its tool name, its arguments and the replies its
\* collaborators gave during the call; a tools/list reply is the fixed list.
C26_ResultDependsOnCallAndRepliesOnly ==
    \A c \in Calls :
        /\ pc[c] = "idle" => SlotIsBlank(c)
        /\ IsCall(c) => res[c] = ResultOf(req[c], heard[c])
        /\ (Done(c) /\ req[c] = ListRequest) => res[c] = listTools

\* C26 witness: a find answered after earlier calls had replaced the store's
\* only document by another one.
C26_Witness ==
    \E c \in Calls :
        /\ IsCall(c) /\ req[c].name = "mongodb_find_documents"
        /\ ~IsErrorResult(res[c])
        /\ Len(heard[c]) = 3
        /\ Len(store.docs) = 1 /\ store.docs[1].body.name = "John"
        /\ Includes(TextOf(res[c]), "John")

\* C27: a dispatched call cannot be cancelled or timed out by the server.  It
\* has no result while a collaborator call of it is outstanding, its result
\* appears in the very step in which a collaborator reply arrives, and when
\* every outstanding collaborator call is answered at some time, with a
\* result or a failure, every dispatched call comes to return a Tool Result.
C27_ReturnsExactlyWhenCollaboratorAnswers ==
    /\ [](\A c \in Calls : InFlight(c) => res[c] = NoResult /\ ended[c] = Nothing)
    /\ [][\A c \in Calls :
              (InFlight(c) /\ pc'[c] # pc[c])
                  => /\ Len(heard'[c]) = Len(heard[c]) + 1
                     /\ pc'[c] \in {"op", "close", "done"}
                     /\ pc'[c] = "done" => IsToolResult(res'[c])
         ]_vars
    /\ \A c \in Calls : InFlight(c) ~> (Done(c) /\ IsToolResult(res[c]))

\* C27 witness: create_database returned after connect, its two database
\* operations and close had each been answered.
C27_Witness ==
    \E c \in Calls :
        /\ IsCall(c) /\ req[c].name = "mongodb_create_database"
        /\ Len(heard[c]) = 4 /\ Len(log[c]) = 4
        /\ IsToolResult(res[c])

\* C28: when connecting to the document store fails, for every mongodb tool:
\* the call ends at once with connect as its only collaborator call (no
\* database operation, no close of the client), its arguments are not
\* parsed (no parse error even for a malformed document or filter), and its
\* result is isError=true with the handler's prefix and the connect
\* failure's message, without the adapter's own prefix.
C28_ConnectFailureBypassesAdapter ==
    \A c \in Calls :
        (Route(req[c].name) = "mongo" /\ got[c] = ConnectFailedReply) =>
            /\ pc[c] = "done"
            /\ log[c] = << [op |-> "connect", uri |-> MONGODB_URI] >>
            /\ pend[c] = Nothing
            /\ ended[c] = Thr(ConnectFault)
            /\ res[c] = ErrorResult(<<"Oshibka: ">> \o ErrMsg(ConnectFault))
            /\ \A i \in 1..Len(MongoPrefix(req[c].name)) :
                  ~Includes(TextOf(res[c]), MongoPrefix(req[c].name)[i])
            /\ \A k \in {"document", "filter"} :
                  ~JSONParse(req[c].args, k).ok => ~HasParseMessage(c, k)

\* C28 witness: an insert with a malformed document met a connect failure.
C28_Witness ==
    \E c \in Calls :
        /\ IsCall(c) /\ req[c].name = "mongodb_insert_document"
        /\ Has(req[c].args, "document") /\ ~JSONParse(req[c].args, "document").ok
        /\ got[c] = ConnectFailedReply
        /\ IsErrorResult(res[c])
        /\ conns = 0

\* C29: a document-store call returns a non-error result only if connect,
\* every database operation it issued and the release all succeeded.  When
\* the release fails after a successful operation the result is
\* isError=true with the release failure's message, and the step in which
\* the release is answered leaves the store as the operation left it.
C29_NonErrorOnlyAfterOperationAndRelease ==
    /\ [](\A c \in Calls :
             (IsCall(c) /\ Route(req[c].name) = "mongo") =>
                 /\ ~IsErrorResult(res[c]) =>
                       /\ Len(heard[c]) >= 3
                       /\ \A i \in 1..Len(heard[c]) : heard[c][i].ok
                       /\ heard[c][Len(heard[c])].kind = "close"
                       /\ \A i \in 2..(Len(heard[c]) - 1) : "value" \in DOMAIN heard[c][i]
                 /\ (pend[c].kind = "return" /\ got[c] = [kind |-> "close", ok |-> FALSE]) =>
                       res[c] = ErrorResult(<<"Oshibka: ">> \o ErrMsg(CloseFault)))
    /\ [][\A c \in Calls : (pc[c] = "close" /\ pc'[c] = "done") => store' = store]_vars

\* C29 witness: the insert of John succeeded, the release failed, the call
\* returned isError=true and the document is in the store.
C29_Witness ==
    \E c \in Calls :
        /\ IsCall(c) /\ InsertsJohn(c)
        /\ pend[c].kind = "return"
        /\ got[c] = [kind |-> "close", ok |-> FALSE]
        /\ IsErrorResult(res[c])
        /\ Len(JohnDocs(store)) = 1

DeleteManyOps(c) == {i \in 1..Len(log[c]) : log[c][i].op = "deleteMany"}

\* C30: mongodb_delete_document never deletes on an omitted filter.  A call
\* without the filter argument issues nothing but connect and close, so it
\* leaves the collection alone, and returns isError=true; deleteMany is
\* issued only by a call whose filter argument parsed as JSON, with the
\* parsed value.  mongodb_find_documents differs: without a filter it issues
\* find with the empty filter, which matches every document.
C30_DeleteNeedsAFilter ==
    \A c \in Calls :
        /\ (req[c].name = "mongodb_delete_document" /\ ~Has(req[c].args, "filter")) =>
              /\ \A i \in 1..Len(log[c]) : log[c][i].op \in {"connect", "close"}
              /\ Done(c) => IsErrorResult(res[c])
              /\ (Done(c) /\ ReleasedOk(c) /\ ~heard[c][1].nameRefused)
                    => HasParseMessage(c, "filter")
        /\ \A i \in DeleteManyOps(c) :
              /\ req[c].name = "mongodb_delete_document"
              /\ Has(req[c].args, "filter") /\ JSONParse(req[c].args, "filter").ok
              /\ log[c][i].filter = JSONParse(req[c].args, "filter").value
        /\ (req[c].name = "mongodb_find_documents" /\ ~Has(req[c].args, "filter")
                /\ Has(req[c].args, "collectionName") /\ pc[c] \in {"op", "close", "done"}
                /\ got[c] # ConnectFailedReply) =>
              /\ Cardinality(FindOps(c)) = 1
              /\ \A i \in FindOps(c) : log[c][i].filter = << >>

\* C30 witness: delete_document without a filter, on the collection that
\* holds a document, came back with the parse error and the document is
\* still there.
C30_Witness ==
    \E c \in Calls :
        /\ IsCall(c) /\ req[c] = [name |-> "mongodb_delete_document", args |-> DC]
        /\ ReleasedOk(c)
        /\ IsErrorResult(res[c]) /\ HasParseMessage(c, "filter")
        /\ DeleteManyOps(c) = {}
        /\ store = InitialStore

====
